---- MODULE Spec2Model ----
(***************************************************************************)
(* Model of the 15-minute BTC binary-market trading engine.                *)
(*                                                                         *)
(* Units.  Money and order sizes are integers in thousandths (10.0 USD is  *)
(* 10000), prices and probabilities are integers in per-mille (0.40 is     *)
(* 400), times are integer seconds, dates are integer day numbers.         *)
(***************************************************************************)
EXTENDS Integers, Sequences, FiniteSets, TLC

VARIABLES
    eng,        \* the PaperTradingEngine object held by the server (paper_engine)
    file,       \* contents of paper_trading_data.json: <<>> (no file) or <<saved state>>
    now,        \* wall clock, seconds
    today,      \* date.today(), day number
    groups,     \* live groups of loop tasks created by start(), with the evaluator's position
    starts,     \* start() calls suspended in the history warm-up
    last,       \* record of the last operation performed (observation only)
    oracle_at,  \* time at which the composite price was last set (observation only)
    om,         \* the OrderManager object with its RiskManager
    rl,         \* the TokenBucketRateLimiter object with its callers
    loss_halt,  \* a halt for the daily loss limit is in force: set when the risk manager
                \* halts for it, cleared by a date change, by the manager's daily reset
                \* and by resume_trading (observation only)
    tested_price, \* <<btc_price at the early exit of the evaluator cycle in progress>>,
                \* <<>> when no cycle is past its early exit (observation only)
    fee_calc,   \* the DynamicFeeCalculator object, with the price and the result of
                \* its last calculate_taker_fee (observation only)
    fair_calc,  \* the FairValueCalculator object, with the arguments and the result
                \* of its last calculate_fair_probability (observation only)
    daily,      \* a RiskManager object called on its own, with the sum of the pnl
                \* passed to its record_trade_closed since the last change of date
    market_info, \* <<the outcomes and the token ids of the event's first market, with
                \* the market_info discover_15min_btc_markets builds from them>>,
                \* <<>> before any discovery
    live_orders \* the ids of the limit orders om has placed successfully and not
                \* since cancelled successfully (observation only)

vars == <<eng, file, now, today, groups, starts, last, oracle_at, om, rl, loss_halt,
          tested_price, fee_calc, fair_calc, daily, market_info, live_orders>>

(***************************************************************************)
(* Text values.  A formatted message is a sequence of words followed by    *)
(* the numbers interpolated into it.                                       *)
(***************************************************************************)
Text(words, args) == [words |-> words, args |-> args]

EmptyText == Text(<<>>, <<>>)

\* str.lower() on one word
lower(w) ==
    CASE w = "Daily" -> "daily"
      [] w = "DAILY" -> "daily"
      [] w = "LOSS" -> "loss"
      [] w = "Loss" -> "loss"
      [] w = "Manual" -> "manual"
      [] w = "Trading" -> "trading"
      [] w = "Up" -> "up"
      [] w = "Down" -> "down"
      [] w = "Yes" -> "yes"
      [] w = "YES" -> "yes"
      [] w = "No" -> "no"
      [] w = "Long" -> "long"
      [] w = "Short" -> "short"
      [] w = "Maybe" -> "maybe"
      [] OTHER -> w

\* "daily loss" in text.lower()
contains_daily_loss(t) ==
    \E i \in 1..(Len(t.words) - 1) :
        lower(t.words[i]) = "daily" /\ lower(t.words[i + 1]) = "loss"

\* f"{x:.2f}" of a non-negative amount: thousandths rounded to cents
fmt_2f(x) == (x + 5) \div 10

(***************************************************************************)
(* RiskManager (src/risk/risk_manager.py)                                  *)
(***************************************************************************)
RiskManager(max_daily_loss_usd, max_position_usd, max_open_positions, max_single_trade_usd, d) ==
    [ max_daily_loss  |-> max_daily_loss_usd,
      max_position    |-> max_position_usd,
      max_positions   |-> max_open_positions,
      max_trade       |-> max_single_trade_usd,
      current_date    |-> d,
      daily_pnl       |-> 0,
      daily_trades    |-> 0,
      open_positions  |-> 0,
      is_halted       |-> FALSE,
      halt_reason     |-> EmptyText,
      trades_approved |-> 0,
      trades_rejected |-> 0 ]

_reset_daily_if_needed(self, d) ==
    IF d # self.current_date
    THEN LET r == [self EXCEPT !.current_date = d, !.daily_pnl = 0, !.daily_trades = 0]
         IN  IF r.is_halted /\ contains_daily_loss(r.halt_reason)
             THEN [r EXCEPT !.is_halted = FALSE, !.halt_reason = EmptyText]
             ELSE r
    ELSE self

\* price * size * (1 + fee_rate) as <<whole thousandths, remainder in 10^-9>>
\* (price and fee_rate in per-mille, size in thousandths); the product
\* price * (1000 + fee_rate) * size, in 10^-9, is taken by parts of three
\* digits to stay within the integers of the checker
total_cost(price, size, fee_rate) ==
    LET a == price * (1000 + fee_rate)
        ah == a \div 1000
        al == a % 1000
        sh == size \div 1000
        sl == size % 1000
        mid == ah * sl + al * sh
        low == (mid % 1000) * 1000 + al * sl
    IN  <<ah * sh + mid \div 1000 + low \div 1000000, low % 1000000>>

\* a comparison that finds no cost above the limit
cost_exceeds_never(cost, limit) == FALSE

\* total_cost > limit, limit in thousandths
cost_exceeds(cost, limit) ==
    \/ cost[1] > limit
    \/ cost[1] = limit /\ cost[2] > 0

\* a rejection that is also counted as a position opened
rejected_counted_as_opened(self, reason) ==
    [self |-> [self EXCEPT !.trades_rejected = @ + 1, !.open_positions = @ + 1,
                           !.daily_trades = @ + 1],
     ok |-> FALSE, reason |-> reason]

\* a rejection: the counter and the (False, reason) returned
rejected(self, reason) ==
    [self |-> [self EXCEPT !.trades_rejected = @ + 1], ok |-> FALSE, reason |-> reason]

\* a position check that never finds the positions full
max_positions_reached_never(self, side) == FALSE

\* the condition of check 4, line 134
max_positions_reached(self, side) ==
    side = "BUY" /\ self.open_positions >= self.max_positions

\* a price check that accepts every price
suspicious_price_never(price) == FALSE

\* the condition of the price sanity check, line 142
suspicious_price(price) == price > 990 \/ price < 10

\* the condition of the size sanity check, line 147
invalid_size(size) == size <= 0 \/ size > 10000 * 1000

\* the checks of validate_trade after the halt check, lines 108-153
validate_checks(self, price, size, fee_rate, side) ==
    LET cost == total_cost(price, size, fee_rate)
    IN  IF cost_exceeds(cost, self.max_trade)
        THEN rejected(self, Text(<<"Trade", "too", "large:">>,
                                 <<fmt_2f(cost[1]), fmt_2f(self.max_trade)>>))
        ELSE IF cost_exceeds(cost, self.max_position)
        THEN rejected(self, Text(<<"Position", "too", "large:">>,
                                 <<fmt_2f(cost[1]), fmt_2f(self.max_position)>>))
        ELSE IF self.daily_pnl < -self.max_daily_loss
        THEN LET reason == Text(<<"Daily", "loss", "limit", "reached:">>, <<fmt_2f(-self.daily_pnl)>>)
             IN  rejected([self EXCEPT !.is_halted = TRUE, !.halt_reason = reason], reason)
        ELSE IF max_positions_reached(self, side)
        THEN rejected(self, Text(<<"Max", "positions", "reached:">>, <<self.open_positions, self.max_positions>>))
        ELSE IF suspicious_price(price)
        THEN rejected(self, Text(<<"Suspicious", "price:">>, <<price>>))
        ELSE IF invalid_size(size)
        THEN rejected(self, Text(<<"Invalid", "size:">>, <<size>>))
        ELSE [self |-> [self EXCEPT !.trades_approved = @ + 1], ok |-> TRUE, reason |-> Text(<<"OK">>, <<>>)]

\* a validation without the halt check of lines 104-106
validate_trade_without_halt_check(self0, d, price, size, fee_rate, side) ==
    validate_checks(_reset_daily_if_needed(self0, d), price, size, fee_rate, side)

validate_trade(self0, d, price, size, fee_rate, side) ==
    LET self == _reset_daily_if_needed(self0, d)
    IN  IF self.is_halted
        THEN rejected(self, Text(<<"Trading", "halted:">> \o self.halt_reason.words,
                                 self.halt_reason.args))
        ELSE validate_checks(self, price, size, fee_rate, side)

record_trade_opened(self, cost) ==
    [self EXCEPT !.open_positions = @ + 1, !.daily_trades = @ + 1]

\* a close that counts the pnl and never halts
record_trade_closed_without_halt(self, pnl) ==
    [self EXCEPT !.open_positions = IF @ - 1 > 0 THEN @ - 1 ELSE 0, !.daily_pnl = @ + pnl]

record_trade_closed(self, pnl) ==
    LET r == [self EXCEPT !.open_positions = IF @ - 1 > 0 THEN @ - 1 ELSE 0,
                          !.daily_pnl = @ + pnl]
    IN  IF r.daily_pnl < -r.max_daily_loss
        THEN [r EXCEPT !.is_halted = TRUE,
                       !.halt_reason = Text(<<"Daily", "loss", "limit:">>, <<fmt_2f(-r.daily_pnl)>>)]
        ELSE r

halt_trading(self, reason) ==
    [self EXCEPT !.is_halted = TRUE, !.halt_reason = reason]

resume_trading(self) ==
    [self EXCEPT !.is_halted = FALSE, !.halt_reason = EmptyText]

(***************************************************************************)
(* TokenBucketRateLimiter (src/utils/rate_limiter.py)                      *)
(*                                                                         *)
(* The limiter's clock (time.monotonic) is counted in ticks of 1/rate      *)
(* seconds, so that one tick refills one token and one second is RLRate    *)
(* ticks.  Callers act on tick boundaries.                                 *)
(***************************************************************************)
RLRate == 4          \* tokens per second
RLCapacity == 4      \* bucket capacity
RLMaxN == 2          \* largest number of tokens one call asks for
RLMaxClock == 5      \* ticks explored
RLCallers == 2       \* concurrent acquire() callers

Callers == 1..RLCallers

Min(a, b) == IF a < b THEN a ELSE b
Max(a, b) == IF a > b THEN a ELSE b

TokenBucketRateLimiter(rate, capacity, t) ==
    [ rate        |-> rate,
      capacity    |-> capacity,
      tokens      |-> capacity,
      last_update |-> t,
      lock        |-> 0,                              \* 0: free, else the caller holding _lock
      waiters     |-> <<>>,                           \* callers queued on _lock, FIFO
      clock       |-> t,                              \* time.monotonic(), ticks
      pc          |-> [c \in Callers |-> "idle"],     \* idle | lock | sleep
      req         |-> [c \in Callers |-> 0],          \* tokens asked by the call in progress
      wait_time   |-> [c \in Callers |-> 0],          \* wait_time of the call in progress, ticks
      wake        |-> [c \in Callers |-> 0],          \* end of its asyncio.sleep
      log         |-> <<>> ]                          \* completed acquire calls of the last second

\* refill at lines 53-59 and 91-97: elapsed * rate tokens, capped
refill(self) ==
    [self EXCEPT !.tokens = Min(self.capacity, self.tokens + (self.clock - self.last_update)),
                 !.last_update = self.clock]

\* keep the calls completed within the last second
log_completed(self, n) ==
    LET all == Append(self.log, [t |-> self.clock, n |-> n])
    IN  SelectSeq(all, LAMBDA e : e.t > self.clock - self.rate)

\* the body of acquire() under the lock, up to the sleep or the return
acquire_locked(self, c, n) ==
    LET r == refill(self)
    IN  IF n > r.tokens
        THEN [r EXCEPT !.lock = c, !.pc[c] = "sleep", !.req[c] = n,
                       !.wait_time[c] = n - r.tokens,
                       !.wake[c] = r.clock + (n - r.tokens)]
        ELSE [r EXCEPT !.tokens = @ - n, !.lock = 0, !.pc[c] = "idle", !.req[c] = 0,
                       !.log = log_completed(r, n)]

\* a caller enters acquire(n): takes the free lock at once, or queues on it
acquire_enter(self, c, n) ==
    IF self.lock = 0 /\ self.waiters = <<>>
    THEN acquire_locked(self, c, n)
    ELSE [self EXCEPT !.pc[c] = "lock", !.req[c] = n, !.waiters = Append(@, c)]

\* the first waiter is given the released lock
acquire_granted(self) ==
    LET c == Head(self.waiters)
    IN  acquire_locked([self EXCEPT !.waiters = Tail(@)], c, self.req[c])

\* the sleep of lines 67 is over: refill by the time waited, consume, release
acquire_wake(self, c) ==
    LET t == Min(self.capacity, self.tokens + self.wait_time[c])
    IN  [self EXCEPT !.tokens = t - self.req[c], !.lock = 0, !.pc[c] = "idle",
                     !.req[c] = 0, !.wait_time[c] = 0, !.wake[c] = 0,
                     !.log = log_completed(self, self.req[c])]

try_acquire(self, n) ==
    LET r == refill(self)
    IN  IF n <= r.tokens THEN [r EXCEPT !.tokens = @ - n] ELSE r

RLAcquire ==
    \E c \in Callers, n \in 1..RLMaxN :
        /\ rl.pc[c] = "idle"
        /\ rl' = acquire_enter(rl, c, n)
        /\ UNCHANGED <<eng, file, now, today, groups, starts, last, oracle_at, om, loss_halt, tested_price, fee_calc, fair_calc, daily, market_info, live_orders>>

RLGranted ==
    /\ rl.lock = 0
    /\ rl.waiters # <<>>
    /\ rl' = acquire_granted(rl)
    /\ UNCHANGED <<eng, file, now, today, groups, starts, last, oracle_at, om, loss_halt, tested_price, fee_calc, fair_calc, daily, market_info, live_orders>>

RLWake ==
    \E c \in Callers :
        /\ rl.pc[c] = "sleep"
        /\ rl.clock >= rl.wake[c]
        /\ rl' = acquire_wake(rl, c)
        /\ UNCHANGED <<eng, file, now, today, groups, starts, last, oracle_at, om, loss_halt, tested_price, fee_calc, fair_calc, daily, market_info, live_orders>>

RLTryAcquire ==
    \E n \in 1..RLMaxN :
        /\ rl' = try_acquire(rl, n)
        /\ UNCHANGED <<eng, file, now, today, groups, starts, last, oracle_at, om, loss_halt, tested_price, fee_calc, fair_calc, daily, market_info, live_orders>>

RLTick ==
    /\ rl.clock < RLMaxClock
    /\ rl' = [rl EXCEPT !.clock = @ + 1,
                        !.log = SelectSeq(@, LAMBDA e : e.t > rl.clock + 1 - rl.rate)]
    /\ UNCHANGED <<eng, file, now, today, groups, starts, last, oracle_at, om, loss_halt, tested_price, fee_calc, fair_calc, daily, market_info, live_orders>>

(***************************************************************************)
(* Numeric helpers                                                         *)
(***************************************************************************)
Abs(x) == IF x < 0 THEN -x ELSE x

RECURSIVE isqrt_between(_, _, _)
isqrt_between(n, lo, hi) ==
    IF lo >= hi THEN lo
    ELSE LET mid == (lo + hi + 1) \div 2
         IN  IF mid * mid <= n THEN isqrt_between(n, mid, hi)
                               ELSE isqrt_between(n, lo, mid - 1)

\* math.sqrt on a non-negative integer, rounded down
isqrt(n) == isqrt_between(n, 0, 46340)

RECURSIVE SumSeq(_)
SumSeq(s) == IF s = <<>> THEN 0 ELSE Head(s) + SumSeq(Tail(s))

\* math.log(a / b) in units of 10^-6, by 2*atanh((a-b)/(a+b)); ratios beyond
\* about 8% are only bounded from below in magnitude
ln_ratio(a, b) ==
    LET z == (Abs(a - b) * 10000) \div ((a + b) \div 100)
        m == IF z > 40000 THEN 2 * z
             ELSE 2 * z + (2 * ((((z * z) \div 1000000) * z) \div 1000000)) \div 3
    IN  IF a >= b THEN m ELSE -m

\* norm.cdf(d) * 1000 at d = 0.0, 0.1, ..., 4.0
norm_cdf_table ==
    << 500, 540, 579, 618, 655, 691, 726, 758, 788, 816, 841, 864, 885, 903, 919,
       933, 945, 955, 964, 971, 977, 982, 986, 989, 992, 994, 995, 997, 997, 998,
       999, 999, 999, 1000, 1000, 1000, 1000, 1000, 1000, 1000, 1000 >>

\* scipy.stats.norm.cdf of d given in thousandths, result in per-mille
norm_cdf(d) ==
    LET a == Abs(d)
        i == a \div 100
        up == IF i >= 40 THEN 1000
              ELSE norm_cdf_table[i + 1]
                   + ((norm_cdf_table[i + 2] - norm_cdf_table[i + 1]) * (a % 100)) \div 100
    IN  IF d >= 0 THEN up ELSE 1000 - up

(***************************************************************************)
(* TechnicalAnalysis (src/strategy/technical_analysis.py)                  *)
(***************************************************************************)
rsi_period == 14
sma_period == 20

\* np.diff(prices)
deltas(prices) == [i \in 1..(Len(prices) - 1) |-> prices[i + 1] - prices[i]]

\* Wilder's recursion of lines 65-73 over deltas[from..]; averages carried
\* in thousandths; the result is the pair of averages after the last step
RECURSIVE wilder(_, _, _, _)
wilder(dl, i, avg_gain, avg_loss) ==
    IF i > Len(dl) THEN <<avg_gain, avg_loss>>
    ELSE wilder(dl, i + 1,
                (avg_gain * (rsi_period - 1) + 1000 * Max(dl[i], 0)) \div rsi_period,
                (avg_loss * (rsi_period - 1) + 1000 * Max(-dl[i], 0)) \div rsi_period)

\* calculate_rsi: RSI in tenths (0..1000)
calculate_rsi(prices) ==
    IF Len(prices) < rsi_period + 1 THEN 500
    ELSE LET dl == deltas(prices)
             gains == [i \in 1..rsi_period |-> Max(dl[i], 0)]
             losses == [i \in 1..rsi_period |-> Max(-dl[i], 0)]
             avg_gain == (1000 * SumSeq(gains)) \div rsi_period
             avg_loss == (1000 * SumSeq(losses)) \div rsi_period
         IN  IF avg_loss = 0 THEN 1000
             ELSE LET w == wilder(dl, rsi_period + 1, avg_gain, avg_loss)
                  IN  IF w[2] = 0 THEN 1000
                      ELSE 1000 - (1000 * w[2]) \div (w[1] + w[2])

\* calculate_sma times sma_period (the sum of the last sma_period prices)
sma_sum(prices) ==
    IF Len(prices) < sma_period
    THEN sma_period * (IF prices = <<>> THEN 0 ELSE prices[Len(prices)])
    ELSE SumSeq(SubSeq(prices, Len(prices) - sma_period + 1, Len(prices)))

\* get_trend_state: trend and rsi
get_trend_state(prices) ==
    IF prices = <<>> THEN [trend |-> "FLAT", rsi |-> 500]
    ELSE LET current_price == prices[Len(prices)]
             s == sma_sum(prices)
             diff == sma_period * current_price - s      \* (current - sma) * period
         IN  [ trend |-> IF diff * 2000 > s THEN "UP"              \* current > sma * 1.0005
                         ELSE IF -diff * 2000 > s THEN "DOWN"      \* current < sma * 0.9995
                         ELSE "FLAT",
               rsi |-> calculate_rsi(prices) ]

(***************************************************************************)
(* PaperTradingEngine (dashboard/paper_trading.py)                         *)
(***************************************************************************)

\* names bound in the module namespace of dashboard/paper_trading.py: its
\* imports (lines 9-23) and the classes and logger it defines
module_names ==
    { "asyncio", "aiohttp", "json", "math", "datetime", "timezone", "Optional", "Dict",
      "List", "dataclass", "field", "norm", "structlog", "logger", "RiskManager",
      "TechnicalAnalysis", "PaperPosition", "PaperTrade", "PaperTradingEngine" }

\* attributes of a RiskManager object: its fields and methods
risk_manager_attrs ==
    { "max_daily_loss", "max_position", "max_positions", "max_trade", "_current_date",
      "daily_pnl", "daily_trades", "open_positions", "is_halted", "halt_reason",
      "trades_approved", "trades_rejected", "_reset_daily_if_needed", "validate_trade",
      "record_trade_opened", "record_trade_closed", "halt_trading", "resume_trading",
      "get_risk_summary", "get_stats" }

initial_balance == 10000        \* 10.0
min_trade_size == 2000          \* 2.0
min_edge == 100                 \* 0.10
cooldown_seconds == 10
stale_seconds == 30
void_seconds == 300
min_valid_price == 1000
MIN_TIME_MINUTES == 1
MAX_TIME_MINUTES == 12
max_history == 200
engine_max_daily_loss == 5000   \* 5.0
engine_max_position == 5000     \* 5.0
engine_max_open_positions == 1
engine_max_single_trade == 5000 \* 5.0

\* str.capitalize() of a side
capitalize(w) == IF w = "up" THEN "Up" ELSE IF w = "down" THEN "Down" ELSE w

\* datetime.isoformat(): the text of a time
isoformat(t) == [iso |-> t]

\* datetime.fromisoformat(): the time of a text
fromisoformat(s) == s.iso

\* A question is kept as the first dollar amount written in it, <<>> when it
\* has none: re.search(r"\$([\d,]+\.?\d*)", question) of line 180
question_amount(question) == question

\* PaperPosition.to_dict (token_id, carried as it is, is left out)
position_to_dict(p) ==
    [ market_slug |-> p.market_slug, question |-> p.question, side |-> p.side,
      entry_price |-> p.entry_price, amount |-> p.amount,
      entry_time |-> isoformat(p.entry_time), end_time |-> isoformat(p.end_time),
      strike_price |-> p.strike_price ]

\* a position rebuilt with its strike always taken from the question
position_from_dict_by_question(dp) ==
    [ market_slug |-> dp.market_slug, question |-> dp.question, side |-> dp.side,
      entry_price |-> dp.entry_price, amount |-> dp.amount,
      entry_time |-> fromisoformat(dp.entry_time), end_time |-> fromisoformat(dp.end_time),
      strike_price |-> IF question_amount(dp.question) # <<>>
                       THEN question_amount(dp.question)[1] ELSE 0 ]

\* the PaperPosition rebuilt by _load_state, lines 172-194: a strike of 0.0
\* is replaced by the amount found in the question
position_from_dict(dp) ==
    [ market_slug |-> dp.market_slug, question |-> dp.question, side |-> dp.side,
      entry_price |-> dp.entry_price, amount |-> dp.amount,
      entry_time |-> fromisoformat(dp.entry_time), end_time |-> fromisoformat(dp.end_time),
      strike_price |-> IF dp.strike_price = 0 /\ question_amount(dp.question) # <<>>
                       THEN question_amount(dp.question)[1] ELSE dp.strike_price ]

\* PaperTrade.to_dict (exit_price is not written; "market", the question cut
\* to 30 characters, is left out)
trade_to_dict(tr) ==
    [ id |-> tr.id, market_slug |-> tr.market_slug, full_question |-> tr.question,
      side |-> capitalize(tr.side),
      price |-> tr.entry_price, amount |-> tr.amount, pnl |-> tr.pnl,
      time |-> isoformat(tr.time), status |-> tr.status, type |-> tr.trade_type ]

\* the PaperTrade rebuilt by _load_state, lines 201-213
trade_from_dict(dt) ==
    [ id |-> dt.id, market_slug |-> dt.market_slug, question |-> dt.full_question,
      side |-> lower(dt.side),
      entry_price |-> dt.price, exit_price |-> 0, amount |-> dt.amount, pnl |-> dt.pnl,
      time |-> fromisoformat(dt.time), status |-> dt.status, trade_type |-> dt.type ]

\* a snapshot that leaves the open positions out
_save_state_without_positions(self) ==
    [ balance         |-> self.balance,
      initial_balance |-> self.initial_balance,
      pnl_today       |-> self.pnl_today,
      total_trades    |-> self.total_trades,
      winning_trades  |-> self.winning_trades,
      positions       |-> <<>>,
      trades          |-> [i \in 1..Len(self.trades) |-> trade_to_dict(self.trades[i])] ]

\* the snapshot written by _save_state
_save_state(self) ==
    [ balance         |-> self.balance,
      initial_balance |-> self.initial_balance,
      pnl_today       |-> self.pnl_today,
      total_trades    |-> self.total_trades,
      winning_trades  |-> self.winning_trades,
      positions       |-> [i \in 1..Len(self.positions) |-> position_to_dict(self.positions[i])],
      trades          |-> [i \in 1..Len(self.trades) |-> trade_to_dict(self.trades[i])] ]

\* a load that does not restore the balance
_load_state_without_balance(self, f) ==
    IF f = <<>> THEN self
    ELSE LET data == f[1]
         IN  [self EXCEPT !.initial_balance = data.initial_balance,
                          !.pnl_today = data.pnl_today,
                          !.total_trades = data.total_trades,
                          !.winning_trades = data.winning_trades,
                          !.positions = [i \in 1..Len(data.positions) |->
                                             position_from_dict(data.positions[i])],
                          !.trades = [i \in 1..Len(data.trades) |-> trade_from_dict(data.trades[i])]]

\* _load_state; f is <<>> when the data file does not exist
_load_state(self, f) ==
    IF f = <<>> THEN self
    ELSE LET data == f[1]
         IN  [self EXCEPT !.balance = data.balance,
                          !.initial_balance = data.initial_balance,
                          !.pnl_today = data.pnl_today,
                          !.total_trades = data.total_trades,
                          !.winning_trades = data.winning_trades,
                          !.positions = [i \in 1..Len(data.positions) |->
                                             position_from_dict(data.positions[i])],
                          !.trades = [i \in 1..Len(data.trades) |-> trade_from_dict(data.trades[i])]]

\* __init__: the defaults of lines 91-126, then _load_state
PaperTradingEngine(d, f) ==
    _load_state(
        [ running           |-> FALSE,
          initial_balance   |-> initial_balance,
          balance           |-> initial_balance,
          pnl_today         |-> 0,
          total_trades      |-> 0,
          winning_trades    |-> 0,
          positions         |-> <<>>,
          trades            |-> <<>>,
          btc_price         |-> 0,
          last_price_update |-> 0,
          markets           |-> <<>>,
          price_history     |-> <<>>,
          last_trade_time   |-> <<>>,       \* <<>> is None
          risk_manager      |-> RiskManager(engine_max_daily_loss, engine_max_position,
                                            engine_max_open_positions,
                                            engine_max_single_trade, d),
          tasks             |-> {},         \* _tasks: the loop-task groups stop() will cancel
          trade_lock        |-> 0 ],        \* _trade_lock: 0 free, else the holding group
        f)

\* list.remove(x): drops the first element equal to x
RECURSIVE list_remove(_, _)
list_remove(l, x) ==
    IF l = <<>> THEN <<>>
    ELSE IF Head(l) = x THEN Tail(l)
    ELSE <<Head(l)>> \o list_remove(Tail(l), x)

\* _execute_paper_trade; miss is the outcome of random.random() > fill_prob
\* a sizing that takes the minimum trade more than the balance
position_size_above_balance(balance, price) == balance + min_trade_size

\* the position sizing of lines 686-695
position_size_of(balance, price) ==
    LET edge == Abs(500 - price)
        pct_of_balance == 500 + edge * 3                         \* in 10^-4
        size0 == (balance * pct_of_balance) \div 10000
    IN  IF size0 > balance THEN balance ELSE size0

\* _execute_paper_trade past the fill simulation, lines 684-731
fill_paper_trade(self, f, market, side, price, t, d) ==
    LET position_size == position_size_of(self.balance, price)
        v == validate_trade(self.risk_manager, d, price, position_size, 0, "BUY")
    IN  IF ~v.ok
        THEN [self |-> [self EXCEPT !.risk_manager = v.self], file |-> f,
              outcome |-> "rejected", reason |-> v.reason]
        ELSE LET position == [ market_slug  |-> market.slug,
                               question     |-> market.question,
                               side         |-> side,
                               entry_price  |-> price,
                               amount       |-> position_size,
                               entry_time   |-> t,
                               end_time     |-> market.end_date,
                               strike_price |-> market.strike_price ]
                 s1 == [self EXCEPT !.positions = Append(@, position),
                                    !.balance = @ - position_size,
                                    !.risk_manager = record_trade_opened(v.self, position_size),
                                    !.last_trade_time = <<t>>]
             IN  [self |-> s1, file |-> <<_save_state(s1)>>, outcome |-> "opened",
                  reason |-> v.reason]

\* a fill simulation whose miss is reported and does not stop the order
_execute_paper_trade_filling_on_miss(self, f, market, side, price, t, d, miss) ==
    IF miss
    THEN [fill_paper_trade(self, f, market, side, price, t, d) EXCEPT !.outcome = "miss"]
    ELSE fill_paper_trade(self, f, market, side, price, t, d)

_execute_paper_trade(self, f, market, side, price, t, d, miss) ==
    IF miss THEN [self |-> self, file |-> f, outcome |-> "miss", reason |-> EmptyText]
    ELSE fill_paper_trade(self, f, market, side, price, t, d)

\* the loop of _settle_expired_positions, lines 796-888, over the expired positions
RECURSIVE settle_loop(_, _, _, _)
settle_loop(self, f, expired, t) ==
    IF expired = <<>> THEN [self |-> self, file |-> f, outcome |-> "swept"]
    ELSE
    LET position == Head(expired)
    IN  IF t - position.end_time > void_seconds
        THEN LET trade == [ id |-> self.total_trades, market_slug |-> position.market_slug,
                            question |-> position.question,
                            side |-> position.side, entry_price |-> position.entry_price,
                            exit_price |-> 0, amount |-> position.amount, pnl |-> 0,
                            time |-> position.entry_time, status |-> "void",
                            trade_type |-> "LateVoid" ]
                 s1 == [self EXCEPT !.balance = @ + position.amount,
                                    !.positions = list_remove(@, position),
                                    !.trades = Append(@, trade),
                                    !.total_trades = @ + 1]
             IN  settle_loop(s1, <<_save_state(s1)>>, Tail(expired), t)
        ELSE LET won == \/ position.side = "up" /\ self.btc_price > position.strike_price
                        \/ position.side = "down" /\ self.btc_price < position.strike_price
                 pnl == IF won
                        THEN (position.amount * 1000) \div position.entry_price - position.amount
                        ELSE -position.amount
                 s1 == [self EXCEPT !.balance = @ + position.amount + pnl,
                                    !.pnl_today = @ + pnl,
                                    !.total_trades = @ + 1,
                                    !.winning_trades = IF won THEN @ + 1 ELSE @,
                                    !.risk_manager = record_trade_closed(@, pnl)]
                 trade == [ id |-> s1.total_trades, market_slug |-> position.market_slug,
                            question |-> position.question,
                            side |-> position.side, entry_price |-> position.entry_price,
                            exit_price |-> IF won THEN 1000 ELSE 0, amount |-> position.amount,
                            pnl |-> pnl, time |-> t, status |-> IF won THEN "won" ELSE "lost",
                            trade_type |-> "Snipe" ]
             IN  IF "check_drawdown" \notin risk_manager_attrs
                 THEN [self |-> s1, file |-> f, outcome |-> "AttributeError"]   \* line 868
                 ELSE settle_loop([s1 EXCEPT !.trades = <<trade>> \o @,
                                             !.positions = list_remove(@, position)],
                                  f, Tail(expired), t)

\* a sweep without the staleness gate of lines 789-794
_settle_expired_positions_without_stale_gate(self, f, t) ==
    LET expired == SelectSeq(self.positions, LAMBDA p : p.end_time <= t)
    IN  IF expired = <<>> THEN [self |-> self, file |-> f, outcome |-> "none"]
        ELSE IF self.btc_price < min_valid_price
        THEN [self |-> self, file |-> f, outcome |-> "invalid_price"]
        ELSE settle_loop(self, f, expired, t)

\* _settle_expired_positions at time t
_settle_expired_positions(self, f, t) ==
    LET expired == SelectSeq(self.positions, LAMBDA p : p.end_time <= t)
    IN  IF expired = <<>> THEN [self |-> self, file |-> f, outcome |-> "none"]
        ELSE IF self.btc_price < min_valid_price
        THEN [self |-> self, file |-> f, outcome |-> "invalid_price"]
        ELSE IF "time" \notin module_names
        THEN [self |-> self, file |-> f, outcome |-> "NameError"]          \* line 791
        ELSE IF t - self.last_price_update > stale_seconds
        THEN [self |-> self, file |-> f, outcome |-> "stale"]
        ELSE settle_loop(self, f, expired, t)

\* a tick that drops the composite when no source answers
price_tick_dropping(self, quotes, t) ==
    IF quotes = <<>> THEN [self EXCEPT !.btc_price = 0]
    ELSE LET avg_price == SumSeq(quotes) \div Len(quotes)
             s1 == [self EXCEPT !.btc_price = avg_price]
         IN  IF "time" \notin module_names
             THEN s1
             ELSE LET h == Append(s1.price_history, avg_price)
                  IN  [s1 EXCEPT !.last_price_update = t,
                                 !.price_history = IF Len(h) > max_history THEN Tail(h) ELSE h]

\* the oracle tick of _price_loop, lines 381-420; quotes are the prices of the
\* sources that answered
price_tick(self, quotes, t) ==
    IF quotes = <<>> THEN self
    ELSE LET avg_price == SumSeq(quotes) \div Len(quotes)
             s1 == [self EXCEPT !.btc_price = avg_price]
         IN  IF "time" \notin module_names
             THEN s1                                   \* NameError at line 392, caught at 422
             ELSE LET h == Append(s1.price_history, avg_price)
                  IN  [s1 EXCEPT !.last_price_update = t,
                                 !.price_history = IF Len(h) > max_history THEN Tail(h) ELSE h]

\* sorted(self.markets, key=get_time_remaining): stable insertion sort
RECURSIVE insert_by_end(_, _)
insert_by_end(sorted, m) ==
    IF sorted = <<>> THEN <<m>>
    ELSE IF m.end_date < Head(sorted).end_date THEN <<m>> \o sorted
    ELSE <<Head(sorted)>> \o insert_by_end(Tail(sorted), m)

RECURSIVE sort_markets(_)
sort_markets(ms) ==
    IF ms = <<>> THEN <<>>
    ELSE insert_by_end(sort_markets(SubSeq(ms, 1, Len(ms) - 1)), ms[Len(ms)])

\* discover_15min_btc_markets (src/data/market_discovery.py) on the markets
\* of the venue's answer at time t: a market without both outcome prices is
\* skipped (line 189), a market is appended when its end is in the future
\* (line 237), and the list is sorted by end_date (line 247)
discover_15min_btc_markets(venue, t) ==
    sort_markets(SelectSeq(venue, LAMBDA m : m.outcome_prices # <<>> /\ m.end_date > t))

\* a sanity check of the quotes that accepts every sum
prices_invalid_sum_never(poly_up, poly_down) == FALSE

\* the condition of the sanity check of line 608
prices_invalid_sum(poly_up, poly_down) ==
    ~(950 <= poly_up + poly_down /\ poly_up + poly_down <= 1050)

\* lines 565-576: P(BTC > strike) in per-mille; remaining in seconds, vol in per-mille
fair_prob_up(btc_price, strike, remaining_seconds, vol) ==
    LET sqrt_T == isqrt(remaining_seconds * 31688)    \* sqrt(T) * 10^6, T in years of 365.25 days
        sigma_t == (vol * sqrt_T) \div 1000           \* in 10^-6
        l == ln_ratio(btc_price, strike)
        d == IF Abs(l) >= 10 * sigma_t THEN (IF l >= 0 THEN 10000 ELSE -10000)
             ELSE IF l >= 0 THEN (l * 1000) \div sigma_t
             ELSE -((-l * 1000) \div sigma_t)
        p == IF sigma_t < 100 \/ strike <= 0
             THEN (IF btc_price > strike THEN 1000 ELSE 0)
             ELSE norm_cdf(d)
    IN  Max(10, Min(990, p))

\* the body of the market loop of _evaluate_trading_opportunities for one
\* market, lines 512-665, with the edge it requires: <<>> or the side and
\* price to trade
evaluate_market_with(self, market, t, vol, required_edge) ==
    LET remaining_seconds == market.end_date - t
        p_up == fair_prob_up(self.btc_price, market.strike_price, remaining_seconds, vol)
        poly_up == market.outcome_prices[1]
        poly_down == market.outcome_prices[2]
        ta_state == get_trend_state(self.price_history)
        can_buy_up == ~(ta_state.trend = "DOWN") /\ ~(ta_state.rsi > 700)
        can_buy_down == ~(ta_state.trend = "UP")
                        /\ ~(~(ta_state.rsi > 700) /\ ta_state.rsi < 300)
    IN  IF market.best_ask - market.best_bid > 50 THEN <<>>
        ELSE IF \E i \in 1..Len(self.positions) : self.positions[i].market_slug = market.slug
        THEN <<>>
        ELSE IF ~market.accepting_orders THEN <<>>
        ELSE IF market.strike_price = 0 THEN <<>>
        ELSE IF remaining_seconds <= MIN_TIME_MINUTES * 60 THEN <<>>
        ELSE IF remaining_seconds > MAX_TIME_MINUTES * 60 THEN <<>>
        ELSE IF 400 < p_up /\ p_up < 600 THEN <<>>
        ELSE IF market.outcome_prices = <<>> THEN <<>>
        ELSE IF prices_invalid_sum(poly_up, poly_down) THEN <<>>
        ELSE IF can_buy_up /\ p_up > poly_up + required_edge
        THEN <<[market |-> market, side |-> "up", price |-> poly_up, p_side |-> p_up]>>
        ELSE IF can_buy_down /\ (1000 - p_up) > poly_down + required_edge
        THEN <<[market |-> market, side |-> "down", price |-> poly_down, p_side |-> 1000 - p_up]>>
        ELSE <<>>

\* a market evaluated with no edge required
evaluate_market_no_edge(self, market, t, vol) ==
    evaluate_market_with(self, market, t, vol, 0)

\* min_edge = 0.10 at line 589
evaluate_market(self, market, t, vol) ==
    evaluate_market_with(self, market, t, vol, min_edge)

\* the scan over the sorted markets up to the first opportunity
RECURSIVE scan_markets(_, _, _, _)
scan_markets(self, ms, t, vol) ==
    IF ms = <<>> THEN <<>>
    ELSE LET opp == evaluate_market(self, Head(ms), t, vol)
         IN  IF opp # <<>> THEN opp ELSE scan_markets(self, Tail(ms), t, vol)

\* a lock test that never finds the lock held
never_locked(self) == FALSE

\* self._trade_lock.locked(), line 472
locked(self) == self.trade_lock # 0

\* the early exits without the test for an open position
early_exit_ignoring_positions(self, t) ==
    \/ self.markets = <<>>
    \/ self.btc_price <= 0
    \/ self.balance < min_trade_size
    \/ (self.last_trade_time # <<>> /\ t - self.last_trade_time[1] < cooldown_seconds)

\* the early exits without the test for a composite price
early_exit_without_price(self, t) ==
    \/ self.markets = <<>>
    \/ self.balance < min_trade_size
    \/ (self.last_trade_time # <<>> /\ t - self.last_trade_time[1] < cooldown_seconds)
    \/ Len(self.positions) > 0

\* the early exits without the cooldown and without the test for an open
\* position
early_exit_without_cooldown(self, t) ==
    \/ self.markets = <<>>
    \/ self.btc_price <= 0
    \/ self.balance < min_trade_size

\* the early exits of _evaluate_trading_opportunities under the lock, lines 476-495
early_exit(self, t) ==
    \/ self.markets = <<>>
    \/ self.btc_price <= 0
    \/ self.balance < min_trade_size
    \/ (self.last_trade_time # <<>> /\ t - self.last_trade_time[1] < cooldown_seconds)
    \/ Len(self.positions) > 0

(***************************************************************************)
(* Bounds and inputs of the engine specification                           *)
(***************************************************************************)
MaxGroups == 2       \* loop-task groups alive at once
MaxStarts == 2       \* start() calls suspended in the warm-up at once
TimeStep == 200      \* seconds the clock advances in one step
MaxSteps == 2        \* clock steps explored
StartTime == 1000    \* the clock when the server comes up
HistLen == 21        \* closes returned by the warm-up request
MaxRejected == 1     \* rejections of the risk manager explored per engine

Groups == 1..MaxGroups

\* what the last step did: the operation, its outcome, the reason it
\* returned and, for a trade the evaluator handed to _execute_paper_trade,
\* the opportunity it was
Last(op, outcome) == [op |-> op, outcome |-> outcome, opp |-> <<>>, reason |-> EmptyText]

\* a market as discovery returns it
Mk(slug, end, prices, strike, spread, accepting) ==
    [ slug |-> slug, question |-> <<>>, end_date |-> end, outcome_prices |-> prices,
      strike_price |-> strike,
      best_bid |-> 400, best_ask |-> 400 + spread, accepting_orders |-> accepting ]

\* the ends of the market windows: too near to trade at the start, tradable
\* at the start, and too far at the start but tradable one step later
NearEnd == StartTime + MIN_TIME_MINUTES * 30
MidEnd == StartTime + MIN_TIME_MINUTES * 90
FarEnd == StartTime + MAX_TIME_MINUTES * 60 + 80

\* the markets of the venue's answer to a discovery round
MarketLists ==
    { <<>>,
      << Mk("X", MidEnd, <<5, 990>>, 90000, 10, TRUE),
         Mk("A", MidEnd, <<400, 600>>, 90000, 10, TRUE) >>,
      << Mk("H", FarEnd, <<400, 600>>, 90000, 10, TRUE),
         Mk("C", MidEnd, <<400, 600>>, 90000, 60, TRUE),
         Mk("D", MidEnd, <<400, 600>>, 90000, 10, FALSE),
         Mk("E", MidEnd, <<400, 600>>, 0, 10, TRUE),
         Mk("F", MidEnd, <<400, 400>>, 90000, 10, TRUE),
         Mk("G", NearEnd, <<400, 600>>, 90000, 10, TRUE),
         Mk("I", MidEnd, <<>>, 90000, 10, TRUE),
         Mk("A", MidEnd, <<550, 450>>, 90000, 10, TRUE) >>,
      << Mk("J", MidEnd, <<800, 150>>, 90000, 10, TRUE) >> }

\* the answers of the six price sources in one oracle tick (those that succeeded)
QuoteLists == { <<>>, <<90036>>, <<89000>>, <<90000, 92000>> }

\* annualized volatilities _calculate_volatility can return
Vols == { 800, 2000 }

\* price histories the warm-up can load
HistDown == [i \in 1..HistLen |-> 90000 - 100 * (i \div 2) - 300 * (i % 2)]
Histories == { HistDown }

(***************************************************************************)
(* OrderManager (src/execution/order_manager.py), with the RiskManager     *)
(* main.py builds from the settings                                        *)
(***************************************************************************)
settings_daily_loss_limit_usd == 500000
settings_max_position_usd == 100000
settings_max_open_positions == 5
settings_max_single_trade_usd == 100000
max_orders_per_second == 50

OrderManager(risk_manager, dry_run) ==
    [ risk_manager            |-> risk_manager,
      dry_run                 |-> dry_run,
      active_orders           |-> {},      \* the dict, as the set of its values (one per order_id)
      orders_placed           |-> 0,
      orders_canceled         |-> 0,
      last_order_time         |-> <<>>,    \* <<>> is None
      order_count_this_second |-> 0 ]

\* _rate_limit_check at time t; its sleep needs max_orders_per_second orders
\* within one second
_rate_limit_check(self, t) ==
    LET n == IF self.last_order_time # <<>> /\ t - self.last_order_time[1] < 1
             THEN (IF self.order_count_this_second + 1 >= max_orders_per_second
                   THEN 0 ELSE self.order_count_this_second + 1)
             ELSE 1
    IN  [self EXCEPT !.order_count_this_second = n, !.last_order_time = <<t>>]

\* place_limit_order.  In dry-run mode the order id is "DRY_" and the
\* timestamp; otherwise it is the orderID of the venue's answer.  response is
\* the answer of client.post_order: <<>> for an exception or an answer
\* without orderID, else <<orderID>>
place_limit_order(self0, d, t, token_id, side, price, size, response) ==
    LET self == _rate_limit_check(self0, t)
        v == validate_trade(self.risk_manager, d, price, size, 0, side)
        s1 == [self EXCEPT !.risk_manager = v.self]
        order_id == IF self.dry_run THEN t ELSE response[1]
        order == [ order_id |-> order_id, token_id |-> token_id, side |-> side,
                   price |-> price, size |-> size, type |-> "limit", status |-> "open" ]
    IN  IF ~v.ok
        THEN [self |-> s1, success |-> FALSE, error |-> v.reason]
        ELSE IF self.dry_run
        THEN [self |-> [s1 EXCEPT !.orders_placed = @ + 1,
                                  !.active_orders = {o \in @ : o.order_id # order_id} \cup {order}],
              success |-> TRUE, error |-> EmptyText]
        ELSE IF response = <<>>
        THEN [self |-> s1, success |-> FALSE, error |-> Text(<<"None">>, <<>>)]
        ELSE [self |-> [s1 EXCEPT !.orders_placed = @ + 1,
                                  !.active_orders = {o \in @ : o.order_id # order_id} \cup {order},
                                  !.risk_manager = record_trade_opened(@, price * size)],
              success |-> TRUE, error |-> EmptyText]

\* a cancel that reports as cancel_order does and removes nothing
cancel_order_reporting_only(self0, t, order_id, response) ==
    LET self == _rate_limit_check(self0, t)
    IN  IF self.dry_run
        THEN [self |-> self, returned |-> \E o \in self.active_orders : o.order_id = order_id]
        ELSE [self |-> self, returned |-> response # <<>> /\ response[1]]

\* cancel_order; response is the answer of client.cancel: <<>> for an
\* exception, else <<its truth value>>
cancel_order(self0, t, order_id, response) ==
    LET self == _rate_limit_check(self0, t)
        removed == [self EXCEPT !.active_orders = {o \in @ : o.order_id # order_id},
                                !.orders_canceled = @ + 1]
    IN  IF self.dry_run
        THEN IF \E o \in self.active_orders : o.order_id = order_id
             THEN [self |-> removed, returned |-> TRUE]
             ELSE [self |-> self, returned |-> FALSE]
        ELSE IF response = <<>> \/ ~response[1]
        THEN [self |-> self, returned |-> FALSE]
        ELSE [self |-> removed, returned |-> TRUE]

\* cancel_all_orders; response is the answer of client.cancel_all: <<>> for
\* an exception, else <<its truth value>>, which is not looked at.  raised
\* tells the except branch, whose return value 0 is also that of a cancel of
\* no orders
cancel_all_orders(self, response) ==
    IF ~self.dry_run /\ response = <<>>
    THEN [self |-> self, returned |-> 0, raised |-> TRUE]
    ELSE [self |-> [self EXCEPT !.active_orders = {},
                                !.orders_canceled = @ + Cardinality(self.active_orders)],
          returned |-> Cardinality(self.active_orders), raised |-> FALSE]

(***************************************************************************)
(* Binary floating point (Python float, IEEE 754 double).  A natural       *)
(* number is a sequence of limbs in base LimbBase, least significant       *)
(* first, without leading zero limbs; a float is sign * m * 2^e with m of  *)
(* exactly DoubleBits bits, or zero.                                       *)
(***************************************************************************)
LimbBase == 4096
LimbBits == 12
DoubleBits == 53

RECURSIVE pow2(_)
pow2(k) == IF k = 0 THEN 1 ELSE 2 * pow2(k - 1)

RECURSIVE big_norm(_)
big_norm(a) ==
    IF a # <<>> /\ a[Len(a)] = 0 THEN big_norm(SubSeq(a, 1, Len(a) - 1)) ELSE a

RECURSIVE big_from_int(_)
big_from_int(n) ==
    IF n = 0 THEN <<>> ELSE <<n % LimbBase>> \o big_from_int(n \div LimbBase)

limb(a, i) == IF i <= Len(a) THEN a[i] ELSE 0

RECURSIVE big_add_from(_, _, _, _)
big_add_from(a, b, i, carry) ==
    IF i > Len(a) /\ i > Len(b)
    THEN (IF carry = 0 THEN <<>> ELSE <<carry>>)
    ELSE LET t == limb(a, i) + limb(b, i) + carry
         IN  <<t % LimbBase>> \o big_add_from(a, b, i + 1, t \div LimbBase)

big_add(a, b) == big_norm(big_add_from(a, b, 1, 0))

\* a - b for a >= b
RECURSIVE big_sub_from(_, _, _, _)
big_sub_from(a, b, i, borrow) ==
    IF i > Len(a) THEN <<>>
    ELSE LET t == limb(a, i) - limb(b, i) - borrow
         IN  IF t < 0 THEN <<t + LimbBase>> \o big_sub_from(a, b, i + 1, 1)
             ELSE <<t>> \o big_sub_from(a, b, i + 1, 0)

big_sub(a, b) == big_norm(big_sub_from(a, b, 1, 0))

\* -1, 0, 1 as a < b, a = b, a > b
RECURSIVE big_cmp_from(_, _, _)
big_cmp_from(a, b, i) ==
    IF i = 0 THEN 0
    ELSE IF a[i] < b[i] THEN -1
    ELSE IF a[i] > b[i] THEN 1
    ELSE big_cmp_from(a, b, i - 1)

big_cmp(a, b) ==
    IF Len(a) < Len(b) THEN -1
    ELSE IF Len(a) > Len(b) THEN 1
    ELSE big_cmp_from(a, b, Len(a))

\* a * d for a small d (d < 2^18)
RECURSIVE big_mul_small_from(_, _, _, _)
big_mul_small_from(a, d, i, carry) ==
    IF i > Len(a) THEN big_from_int(carry)
    ELSE LET t == a[i] * d + carry
         IN  <<t % LimbBase>> \o big_mul_small_from(a, d, i + 1, t \div LimbBase)

big_mul_small(a, d) == big_norm(big_mul_small_from(a, d, 1, 0))

\* a * LimbBase^k
RECURSIVE big_shift_limbs(_, _)
big_shift_limbs(a, k) ==
    IF a = <<>> \/ k = 0 THEN a ELSE <<0>> \o big_shift_limbs(a, k - 1)

RECURSIVE big_mul_from(_, _, _)
big_mul_from(a, b, i) ==
    IF i > Len(b) THEN <<>>
    ELSE big_add(big_shift_limbs(big_mul_small(a, b[i]), i - 1), big_mul_from(a, b, i + 1))

big_mul(a, b) == big_mul_from(a, b, 1)

\* <<a \div d, a % d>> for a small d (d < 2^18)
RECURSIVE big_divmod_small_from(_, _, _, _)
big_divmod_small_from(a, d, i, rem) ==
    IF i = 0 THEN <<<<>>, rem>>
    ELSE LET t == rem * LimbBase + a[i]
             rest == big_divmod_small_from(a, d, i - 1, t % d)
         IN  <<rest[1] \o <<t \div d>>, rest[2]>>

big_divmod_small(a, d) ==
    LET r == big_divmod_small_from(a, d, Len(a), 0)
    IN  <<big_norm(r[1]), r[2]>>

\* a * 2^k
big_shl(a, k) == big_shift_limbs(big_mul_small(a, pow2(k % LimbBits)), k \div LimbBits)

\* <<a \div 2^k, a % 2^k # 0>>
big_shr(a, k) ==
    LET whole == k \div LimbBits
        dropped == SubSeq(a, 1, IF whole < Len(a) THEN whole ELSE Len(a))
        kept == IF whole < Len(a) THEN SubSeq(a, whole + 1, Len(a)) ELSE <<>>
        r == big_divmod_small(kept, pow2(k % LimbBits))
    IN  <<r[1], r[2] # 0 \/ big_norm(dropped) # <<>>>>

RECURSIVE int_bits(_)
int_bits(n) == IF n = 0 THEN 0 ELSE 1 + int_bits(n \div 2)

\* the number of bits of a
big_bits(a) == IF a = <<>> THEN 0 ELSE (Len(a) - 1) * LimbBits + int_bits(a[Len(a)])

big_odd(a) == a # <<>> /\ a[1] % 2 = 1

float_zero == [neg |-> FALSE, m |-> <<>>, e |-> 0]

\* the double nearest to (n + fraction) * 2^e, ties to even; inexact says
\* that a fraction in (0, 1) follows n
float_round(neg, n, e, inexact) ==
    IF n = <<>> THEN float_zero
    ELSE LET bits == big_bits(n)
         IN  IF bits <= DoubleBits
             THEN [neg |-> neg, m |-> big_shl(n, DoubleBits - bits), e |-> e - (DoubleBits - bits)]
             ELSE LET drop == bits - DoubleBits
                      q == big_shr(n, drop)
                      half == big_shr(n, drop - 1)
                      round_bit == big_odd(half[1])
                      sticky == half[2] \/ inexact
                      up == round_bit /\ (sticky \/ big_odd(q[1]))
                      m == IF up THEN big_add(q[1], <<1>>) ELSE q[1]
                  IN  IF big_bits(m) > DoubleBits
                      THEN [neg |-> neg, m |-> big_shr(m, 1)[1], e |-> e + drop + 1]
                      ELSE [neg |-> neg, m |-> m, e |-> e + drop]

\* float(Decimal(num) / Decimal(den)) and the float division num / den, for
\* naturals num and den (den < 2^18): the double nearest to the quotient
float_of_ratio(num, den) ==
    LET n == big_shl(big_from_int(num), 72)
        r == big_divmod_small(n, den)
    IN  float_round(FALSE, r[1], -72, r[2] # 0)

float_mul(x, y) ==
    IF x.m = <<>> \/ y.m = <<>> THEN float_zero
    ELSE float_round(x.neg # y.neg, big_mul(x.m, y.m), x.e + y.e, FALSE)

\* x * 2^k, exact
float_scale(x, k) == IF x.m = <<>> THEN x ELSE [x EXCEPT !.e = @ + k]

\* x - y for non-negative x and y
float_sub(x, y) ==
    IF y.m = <<>> THEN x
    ELSE IF x.m = <<>> THEN [y EXCEPT !.neg = TRUE]
    ELSE LET e == IF x.e < y.e THEN x.e ELSE y.e
             a == big_shl(x.m, x.e - e)
             b == big_shl(y.m, y.e - e)
             c == big_cmp(a, b)
         IN  IF c = 0 THEN float_zero
             ELSE IF c > 0 THEN float_round(FALSE, big_sub(a, b), e, FALSE)
             ELSE float_round(TRUE, big_sub(b, a), e, FALSE)

\* -1, 0, 1 as x < y, x = y, x > y
float_cmp(x, y) ==
    IF x.m = <<>> /\ y.m = <<>> THEN 0
    ELSE IF x.m = <<>> THEN (IF y.neg THEN 1 ELSE -1)
    ELSE IF y.m = <<>> THEN (IF x.neg THEN -1 ELSE 1)
    ELSE IF x.neg # y.neg THEN (IF x.neg THEN -1 ELSE 1)
    ELSE LET c == IF x.e # y.e THEN (IF x.e < y.e THEN -1 ELSE 1) ELSE big_cmp(x.m, y.m)
         IN  IF x.neg THEN -c ELSE c

(***************************************************************************)
(* DynamicFeeCalculator (src/risk/fee_calculator.py).  A price is a        *)
(* Decimal, given as a number of units of 1 / FeePriceScale.               *)
(***************************************************************************)
FeePriceScale == 1000  \* prices are tried at every thousandth

MAX_FEE_BPS == 315

DynamicFeeCalculator(max_fee_bps) == [max_fee_bps |-> max_fee_bps, calculations |-> 0]

\* a fee that grows with the price: max_fee * 2 * p
calculate_taker_fee_linear(self, price) ==
    LET p == float_of_ratio(price, FeePriceScale)
        fee_rate == float_mul(float_of_ratio(self.max_fee_bps, 10000), float_scale(p, 1))
    IN  [self |-> [self EXCEPT !.calculations = @ + 1], fee_rate |-> fee_rate]

calculate_taker_fee(self, price) ==
    LET p == float_of_ratio(price, FeePriceScale)
        fee_multiplier == float_mul(float_scale(p, 2), float_sub(float_of_ratio(1, 1), p))
        fee_rate == float_mul(float_of_ratio(self.max_fee_bps, 10000), fee_multiplier)
    IN  [self |-> [self EXCEPT !.calculations = @ + 1],
         fee_rate |-> IF float_cmp(float_zero, fee_rate) >= 0 THEN float_zero ELSE fee_rate]

(***************************************************************************)
(* FairValueCalculator (src/strategy/fair_value.py).  Prices are whole     *)
(* dollars, the volatility and the probability returned are in per-mille.  *)
(***************************************************************************)
DEFAULT_ANNUAL_VOL == 800

FairValueCalculator(annual_volatility) == [annual_vol |-> annual_volatility, calc_count |-> 0]

\* sigma_t of lines 73-76, in 10^-6
fair_sigma_t(self, remaining_seconds) ==
    (self.annual_vol * isqrt(remaining_seconds * 31688)) \div 1000

\* a calculation that clips the result of every branch to [0.01, 0.99]
calculate_fair_probability_clipped(self, current_price, strike_price, remaining_seconds) ==
    [self |-> [self EXCEPT !.calc_count = @ + 1],
     probability |-> IF current_price > strike_price THEN 990 ELSE 10]

calculate_fair_probability(self, current_price, strike_price, remaining_seconds) ==
    LET self1 == [self EXCEPT !.calc_count = @ + 1]
        binary == IF current_price > strike_price THEN 1000 ELSE 0
    IN  IF remaining_seconds <= 0
        THEN [self |-> self1, probability |-> binary]
        ELSE LET sigma_t == fair_sigma_t(self, remaining_seconds)
             IN  IF sigma_t < 100 \/ current_price <= 0
                 THEN [self |-> self1, probability |-> binary]
                 ELSE LET l == IF strike_price > 0 THEN ln_ratio(current_price, strike_price)
                               ELSE 0
                          d == IF Abs(l) >= 10 * sigma_t THEN (IF l >= 0 THEN 10000 ELSE -10000)
                               ELSE IF l >= 0 THEN (l * 1000) \div sigma_t
                               ELSE -((-l * 1000) \div sigma_t)
                      IN  [self |-> self1, probability |-> Max(10, Min(990, norm_cdf(d)))]

(***************************************************************************)
(* The engine specification.  No dashboard client is connected, so the     *)
(* broadcast in _log returns without suspending: a loop iteration runs     *)
(* from one network request to the next.                                   *)
(***************************************************************************)
Init ==
    /\ eng = PaperTradingEngine(0, <<>>)
    /\ file = <<>>
    /\ now = StartTime
    /\ today = 0
    /\ groups = [g \in Groups |-> "dead"]
    /\ starts = 0
    /\ last = Last("step", "")
    /\ oracle_at = <<>>
    /\ om = OrderManager(RiskManager(settings_daily_loss_limit_usd, settings_max_position_usd,
                                     settings_max_open_positions,
                                     settings_max_single_trade_usd, 0), TRUE)
    /\ rl = TokenBucketRateLimiter(RLRate, RLCapacity, 0)
    /\ loss_halt = FALSE
    /\ tested_price = <<>>
    /\ fee_calc = [self |-> DynamicFeeCalculator(MAX_FEE_BPS), price |-> <<>>, returned |-> float_zero]
    /\ fair_calc = [self |-> FairValueCalculator(DEFAULT_ANNUAL_VOL), args |-> <<>>, returned |-> 0]
    /\ daily = [self |-> RiskManager(engine_max_daily_loss, engine_max_position,
                                     engine_max_open_positions, engine_max_single_trade, 0),
                closed_today |-> 0]
    /\ market_info = <<>>
    /\ live_orders = {}

\* groups[g] is the position of the _trading_loop of the g-th group of loop
\* tasks: dead | sleep | vol (inside the lock, awaiting the volatility)
GroupAlive(g) == groups[g] # "dead"

\* POST /api/bot/start: a new engine is built from the data file and started
StartBot ==
    /\ ~eng.running
    /\ starts = 0
    /\ \A g \in Groups : ~GroupAlive(g)
    /\ eng' = [PaperTradingEngine(today, file) EXCEPT !.running = TRUE]
    /\ starts' = 1
    /\ last' = Last("step", "")
    /\ oracle_at' = <<>>
    /\ UNCHANGED <<file, now, today, groups, om, rl, loss_halt, tested_price, fee_calc, fair_calc, daily, market_info, live_orders>>

\* start() on the current engine, up to its suspension in the warm-up
Start ==
    /\ ~eng.running
    /\ starts < MaxStarts
    /\ eng' = [eng EXCEPT !.running = TRUE]
    /\ starts' = starts + 1
    /\ last' = Last("step", "")
    /\ UNCHANGED <<file, now, today, groups, oracle_at, om, rl, loss_halt, tested_price, fee_calc, fair_calc, daily, market_info, live_orders>>

\* a start() call resumes after the warm-up: the history is set when the
\* request succeeded (fetched = <<history>>) and the four loop tasks are created
WarmupDone ==
    \E fetched \in { <<>> } \cup { <<h>> : h \in Histories } :
        /\ starts > 0
        /\ \E g \in Groups : ~GroupAlive(g)
        /\ \E g \in { CHOOSE x \in Groups : ~GroupAlive(x) /\ \A y \in Groups : ~GroupAlive(y) => x <= y } :
               /\ groups' = [groups EXCEPT ![g] = "sleep"]
               /\ eng' = [eng EXCEPT !.tasks = {g},
                                     !.price_history = IF fetched = <<>> THEN @ ELSE fetched[1]]
        /\ starts' = starts - 1
        /\ last' = Last("step", "")
        /\ UNCHANGED <<file, now, today, oracle_at, om, rl, loss_halt, tested_price, fee_calc, fair_calc, daily, market_info, live_orders>>

\* stop(): the tasks in _tasks are cancelled; a cancelled evaluator leaves
\* the lock
Stop ==
    /\ eng' = [eng EXCEPT !.running = FALSE, !.tasks = {},
                          !.trade_lock = IF @ \in eng.tasks THEN 0 ELSE @]
    /\ groups' = [g \in Groups |-> IF g \in eng.tasks THEN "dead" ELSE groups[g]]
    /\ tested_price' = IF \E g \in Groups : groups'[g] = "vol" THEN tested_price ELSE <<>>
    /\ last' = Last("step", "")
    /\ UNCHANGED <<file, now, today, starts, oracle_at, om, rl, loss_halt, fee_calc, fair_calc, daily, market_info, live_orders>>

\* one iteration of _price_loop
PriceLoop ==
    \E g \in Groups, quotes \in QuoteLists :
        /\ GroupAlive(g)
        /\ eng.running
        /\ eng' = price_tick(eng, quotes, now)
        /\ oracle_at' = IF quotes = <<>> THEN oracle_at ELSE <<now>>
        /\ last' = Last("price_tick", IF quotes = <<>> THEN "no_sources" ELSE "sources")
        /\ UNCHANGED <<file, now, today, groups, starts, om, rl, loss_halt, tested_price, fee_calc, fair_calc, daily, market_info, live_orders>>

\* the times the clock of the model shows
ClockTimes == { StartTime + k * TimeStep : k \in 0..MaxSteps }

\* discover_15min_btc_markets on each answer of the venue at each time,
\* computed once
discovered == [t \in ClockTimes |-> [ms \in MarketLists |-> discover_15min_btc_markets(ms, t)]]

\* one iteration of _market_loop
MarketLoop ==
    \E g \in Groups, ms \in MarketLists :
        /\ GroupAlive(g)
        /\ eng.running
        /\ eng' = [eng EXCEPT !.markets = discovered[now][ms]]
        /\ last' = Last("step", "")
        /\ UNCHANGED <<file, now, today, groups, starts, oracle_at, om, rl, loss_halt, tested_price, fee_calc, fair_calc, daily, market_info, live_orders>>

\* one iteration of _settlement_loop
SettleLoop ==
    \E g \in Groups :
        /\ GroupAlive(g)
        /\ eng.running
        /\ \E r \in { _settle_expired_positions(eng, file, now) } :
               /\ eng' = r.self
               /\ file' = r.file
               /\ last' = Last("settle", r.outcome)
        /\ UNCHANGED <<now, today, groups, starts, oracle_at, om, rl, loss_halt, tested_price, fee_calc, fair_calc, daily, market_info, live_orders>>

\* one iteration of _trading_loop up to the volatility request: the exit of
\* the loop, the lock test, the lock and the early exits
EvalBegin ==
    \E g \in Groups :
        /\ groups[g] = "sleep"
        /\ eng.risk_manager.trades_rejected < MaxRejected
        /\ IF ~eng.running
           THEN /\ groups' = [groups EXCEPT ![g] = "dead"]
                /\ last' = Last("eval_begin", "exit_loop")
                /\ UNCHANGED <<eng, tested_price>>
           ELSE IF locked(eng)
           THEN /\ last' = Last("eval_begin", "locked")
                /\ UNCHANGED <<eng, groups, tested_price>>
           ELSE IF early_exit(eng, now)
           THEN /\ last' = Last("eval_begin", "early_exit")
                /\ UNCHANGED <<eng, groups, tested_price>>
           ELSE /\ eng' = [eng EXCEPT !.trade_lock = g]
                /\ groups' = [groups EXCEPT ![g] = "vol"]
                /\ tested_price' = <<eng.btc_price>>
                /\ last' = Last("eval_begin", "entered")
        /\ UNCHANGED <<file, now, today, starts, oracle_at, om, rl, loss_halt, fee_calc, fair_calc, daily, market_info, live_orders>>

\* the volatility request returns: the markets are scanned up to the first
\* opportunity, which _execute_paper_trade is called for, and the lock is left
EvalScan ==
    \E g \in Groups, vol \in Vols :
        /\ groups[g] = "vol"
        /\ \E opp \in { scan_markets(eng, sort_markets(eng.markets), now, vol) } :
               IF opp = <<>>
               THEN /\ eng' = [eng EXCEPT !.trade_lock = 0]
                    /\ last' = Last("eval_scan", "no_opportunity")
                    /\ UNCHANGED file
               ELSE \E miss \in BOOLEAN :
                    \E r \in { _execute_paper_trade(eng, file, opp[1].market, opp[1].side,
                                                     opp[1].price, now, today, miss) } :
                        /\ eng' = [r.self EXCEPT !.trade_lock = 0]
                        /\ file' = r.file
                        /\ last' = [op |-> "execute", outcome |-> r.outcome, opp |-> opp,
                                     reason |-> r.reason]
        /\ groups' = [groups EXCEPT ![g] = "sleep"]
        /\ tested_price' = <<>>
        /\ UNCHANGED <<now, today, starts, oracle_at, om, rl, loss_halt, fee_calc, fair_calc, daily, market_info, live_orders>>

Tick ==
    /\ now < StartTime + MaxSteps * TimeStep
    /\ now' = now + TimeStep
    /\ last' = Last("step", "")
    /\ UNCHANGED <<eng, file, today, groups, starts, oracle_at, om, rl, loss_halt, tested_price, fee_calc, fair_calc, daily, market_info, live_orders>>

Next ==
    \/ StartBot \/ Start \/ WarmupDone \/ Stop
    \/ PriceLoop \/ MarketLoop \/ SettleLoop
    \/ EvalBegin \/ EvalScan
    \/ Tick

Spec == Init /\ [][Next]_vars

\* the engine started once and never stopped, with its scheduling: while
\* the engine runs, the settlement
\* loop and the price loop are resumed after each sleep (asyncio.sleep at
\* lines 467 and 425), and time passes
LiveNext ==
    \/ StartBot \/ WarmupDone
    \/ PriceLoop \/ MarketLoop \/ SettleLoop
    \/ EvalBegin \/ EvalScan
    \/ Tick

SpecLive ==
    Init /\ [][LiveNext]_vars /\ WF_vars(SettleLoop) /\ WF_vars(PriceLoop) /\ WF_vars(Tick)

(***************************************************************************)
(* The risk specification: the operations of the RiskManager and the       *)
(* operations of the engine and of the OrderManager that consult it, each  *)
(* called directly, with the bot stopped and started in between.           *)
(***************************************************************************)
MaxDay == 1            \* date changes explored
MaxOpen == 2           \* positions opened per data file
MaxOrders == 1         \* orders placed
MaxDailyMove == 6000   \* |daily_pnl| up to which trades are closed

\* the trades _execute_paper_trade is called for: market, side, price
RiskTrades ==
    { <<Mk("A", MidEnd, <<400, 600>>, 90000, 10, TRUE), "up", 400>>,
      <<Mk("X", MidEnd, <<5, 990>>, 90000, 10, TRUE), "up", 5>> }

\* the pnl of the trades closed
RiskPnls == { -2500, 2500 }

\* the reasons of manual halts
HaltReasons == { Text(<<"Manual", "halt">>, <<>>), Text(<<"DAILY", "LOSS", "drill">>, <<>>) }

\* the orders placed: side, price, size
RiskOrders == { <<"BUY", 400, 10000>>, <<"SELL", 600, 200000>> }

ExecutePaperTrade ==
    \E tr \in RiskTrades, miss \in BOOLEAN :
        /\ Len(eng.positions) < MaxOpen
        /\ eng.risk_manager.trades_rejected < MaxRejected
        /\ \E r \in { _execute_paper_trade(eng, file, tr[1], tr[2], tr[3], now, today, miss) } :
               /\ eng' = r.self
               /\ file' = r.file
               /\ last' = [op |-> "execute", outcome |-> r.outcome, opp |-> <<>>,
                           reason |-> r.reason]
               /\ loss_halt' =
                      IF r.outcome = "miss" THEN loss_halt
                      ELSE IF r.reason.words = <<"Daily", "loss", "limit", "reached:">> THEN TRUE
                      ELSE IF today # eng.risk_manager.current_date THEN FALSE
                      ELSE loss_halt
        /\ UNCHANGED <<now, today, groups, starts, oracle_at, om, rl, tested_price, fee_calc, fair_calc, daily, market_info, live_orders>>

RecordTradeClosed ==
    \E pnl \in RiskPnls :
        /\ Abs(eng.risk_manager.daily_pnl) < MaxDailyMove
        /\ \E r \in { record_trade_closed(eng.risk_manager, pnl) } :
               /\ eng' = [eng EXCEPT !.risk_manager = r]
               /\ loss_halt' = IF r.daily_pnl < -r.max_daily_loss THEN TRUE ELSE loss_halt
        /\ last' = Last("record_trade_closed", "")
        /\ UNCHANGED <<file, now, today, groups, starts, oracle_at, om, rl, tested_price, fee_calc, fair_calc, daily, market_info, live_orders>>

HaltTrading ==
    \E reason \in HaltReasons :
        /\ eng' = [eng EXCEPT !.risk_manager = halt_trading(@, reason)]
        /\ last' = Last("halt_trading", "")
        /\ UNCHANGED <<file, now, today, groups, starts, oracle_at, om, rl, loss_halt, tested_price, fee_calc, fair_calc, daily, market_info, live_orders>>

ResumeTrading ==
    /\ eng' = [eng EXCEPT !.risk_manager = resume_trading(@)]
    /\ loss_halt' = FALSE
    /\ last' = Last("resume_trading", "")
    /\ UNCHANGED <<file, now, today, groups, starts, oracle_at, om, rl, tested_price, fee_calc, fair_calc, daily, market_info, live_orders>>

NextDay ==
    /\ today < MaxDay
    /\ today' = today + 1
    /\ loss_halt' = FALSE
    /\ daily' = [daily EXCEPT !.closed_today = 0]
    /\ last' = Last("next_day", "")
    /\ UNCHANGED <<eng, file, now, groups, starts, oracle_at, om, rl, tested_price, fee_calc, fair_calc, market_info, live_orders>>

PlaceLimitOrder ==
    \E o \in RiskOrders :
        /\ om.orders_placed < MaxOrders
        /\ om.risk_manager.trades_rejected < MaxRejected
        /\ \E r \in { place_limit_order(om, today, now, "token", o[1], o[2], o[3], <<>>) } :
               /\ om' = r.self
               /\ live_orders' = IF r.success THEN live_orders \cup {now} ELSE live_orders
               /\ last' = [op |-> "place_limit_order",
                           outcome |-> IF r.success THEN "placed" ELSE "rejected",
                           opp |-> <<>>, reason |-> r.error]
        /\ UNCHANGED <<eng, file, now, today, groups, starts, oracle_at, rl, loss_halt, tested_price, fee_calc, fair_calc, daily, market_info>>

RiskNext ==
    \/ StartBot \/ WarmupDone \/ Stop
    \/ ExecutePaperTrade \/ RecordTradeClosed \/ HaltTrading \/ ResumeTrading
    \/ NextDay \/ PlaceLimitOrder

SpecRisk == Init /\ [][RiskNext]_vars

(***************************************************************************)
(* The fee specification: calls of calculate_taker_fee on one calculator   *)
(***************************************************************************)
MaxCalculations == 1   \* calls of calculate_taker_fee explored

\* the prices the fee is calculated at: [0, 1] and one above
FeePrices == 0..FeePriceScale \cup {FeePriceScale + FeePriceScale \div 5}

CalculateTakerFee ==
    \E price \in FeePrices :
        /\ fee_calc.self.calculations < MaxCalculations
        /\ \E r \in { calculate_taker_fee(fee_calc.self, price) } :
               fee_calc' = [self |-> r.self, price |-> <<price>>, returned |-> r.fee_rate]
        /\ UNCHANGED <<eng, file, now, today, groups, starts, last, oracle_at, om, rl, loss_halt,
                       tested_price, fair_calc, daily, market_info, live_orders>>

FeeNext == CalculateTakerFee

SpecFee == Init /\ [][FeeNext]_vars

(***************************************************************************)
(* The daily accounting specification: validate_trade and                  *)
(* record_trade_closed called on one RiskManager, with the date advancing  *)
(***************************************************************************)
MaxValidations == 3   \* calls of validate_trade explored

\* the trades validated: price, size, side
DailyTrades == { <<400, 2000, "BUY">>, <<500, 20000, "BUY">> }

ManagerValidateTrade ==
    \E tr \in DailyTrades :
        /\ daily.self.trades_approved + daily.self.trades_rejected < MaxValidations
        /\ \E v \in { validate_trade(daily.self, today, tr[1], tr[2], 0, tr[3]) } :
               /\ daily' = [daily EXCEPT !.self = v.self]
               /\ last' = [op |-> "validate_trade", outcome |-> IF v.ok THEN "ok" ELSE "rejected",
                           opp |-> <<>>, reason |-> v.reason]
        /\ UNCHANGED <<eng, file, now, today, groups, starts, oracle_at, om, rl, loss_halt,
                       tested_price, fee_calc, fair_calc, market_info, live_orders>>

ManagerRecordTradeClosed ==
    \E pnl \in RiskPnls :
        /\ Abs(daily.self.daily_pnl) < MaxDailyMove
        /\ daily' = [self |-> record_trade_closed(daily.self, pnl),
                     closed_today |-> daily.closed_today + pnl]
        /\ last' = Last("record_trade_closed", "")
        /\ UNCHANGED <<eng, file, now, today, groups, starts, oracle_at, om, rl, loss_halt,
                       tested_price, fee_calc, fair_calc, market_info, live_orders>>

DailyNext == ManagerValidateTrade \/ ManagerRecordTradeClosed \/ NextDay

SpecDaily == Init /\ [][DailyNext]_vars

(***************************************************************************)
(* The sizing specification: the bot started on a data file holding any    *)
(* balance, and _execute_paper_trade called on the engine                  *)
(***************************************************************************)
\* the balances found in paper_trading_data.json, thousandths of a dollar
FileBalances == { 2000, 10000, 25000, 50000, 100000, 200000, 1000000 }

\* paper_trading_data.json is put in place while the bot is stopped: the
\* snapshot of an engine without positions or trades, with a balance
RestoreDataFile ==
    \E b \in FileBalances :
        /\ ~eng.running
        /\ starts = 0
        /\ file' = <<_save_state([PaperTradingEngine(today, <<>>) EXCEPT !.balance = b])>>
        /\ last' = Last("step", "")
        /\ UNCHANGED <<eng, now, today, groups, starts, oracle_at, om, rl, loss_halt,
                       tested_price, fee_calc, fair_calc, daily, market_info, live_orders>>

SizingNext == RestoreDataFile \/ StartBot \/ WarmupDone \/ Stop \/ ExecutePaperTrade

SpecSizing == Init /\ [][SizingNext]_vars

(***************************************************************************)
(* Outcome labels, token ids and prices of a discovered market             *)
(* (src/data/market_discovery.py lines 120-217).  Indexes count from 0 as  *)
(* in the source; None is <<>>.                                            *)
(***************************************************************************)
\* the loop of lines 135-140 from position i on, with the indexes found so far
RECURSIVE map_indexes(_, _, _, _)
map_indexes(outcomes, i, up_idx, down_idx) ==
    IF i >= Len(outcomes) THEN [up_idx |-> up_idx, down_idx |-> down_idx]
    ELSE LET l == lower(outcomes[i + 1])
         IN  IF l \in {"yes", "up", "long"}
             THEN map_indexes(outcomes, i + 1, i, down_idx)
             ELSE IF l \in {"no", "down", "short"}
             THEN map_indexes(outcomes, i + 1, up_idx, i)
             ELSE map_indexes(outcomes, i + 1, up_idx, down_idx)

\* up_idx and down_idx of lines 127-144
outcome_indexes(outcomes0) ==
    LET outcomes == IF outcomes0 = <<>> THEN <<"Yes", "No">> ELSE outcomes0
        found == map_indexes(outcomes, 0, -1, -1)
    IN  [up_idx   |-> IF found.up_idx = -1 THEN 0 ELSE found.up_idx,
         down_idx |-> IF found.down_idx = -1 THEN 1 ELSE found.down_idx]

\* get_safe of lines 159-160
get_safe(arr, idx, default) == IF Len(arr) > idx THEN <<arr[idx + 1]>> ELSE default

\* the market_info built from the first market of an event: <<>> when the
\* market is skipped for a missing price (lines 186-190)
build_market_info(outcomes, tokens_arr, prices_arr) ==
    LET idx == outcome_indexes(outcomes)
        up_p == get_safe(prices_arr, idx.up_idx, <<>>)
        down_p == get_safe(prices_arr, idx.down_idx, <<>>)
    IN  IF up_p = <<>> \/ down_p = <<>> THEN <<>>
        ELSE <<[ tokens |-> [up   |-> get_safe(tokens_arr, idx.up_idx, <<>>),
                             down |-> get_safe(tokens_arr, idx.down_idx, <<>>)],
                 outcome_prices |-> [up |-> up_p[1], down |-> down_p[1]] ]>>

(***************************************************************************)
(* The discovery specification: one market of the venue's answer at a time *)
(***************************************************************************)
MaxOutcomes == 2   \* longest list of outcome labels

\* the labels of the outcomes: recognised in several spellings, and one that
\* is not
OutcomeLabels == { "Yes", "No", "Up", "Down", "Short", "YES", "Maybe" }

RECURSIVE LabelLists(_)
LabelLists(n) ==
    IF n = 0 THEN { <<>> }
    ELSE LabelLists(n - 1)
         \cup { Append(l, x) : l \in { k \in LabelLists(n - 1) : Len(k) = n - 1 },
                               x \in OutcomeLabels }

\* the lists of outcome labels of a market: none, one label, two labels
OutcomeLists == LabelLists(MaxOutcomes)

\* clobTokenIds of the market: absent, or one id per outcome
TokenLists == { <<>>, <<"t0", "t1">>, <<"t0", "t1", "t2">> }

\* outcomePrices of the market, per-mille
PriceLists == { <<>>, <<520, 480>>, <<300, 300, 400>> }

DiscoverMarket ==
    \E outcomes \in OutcomeLists, tokens_arr \in TokenLists, prices_arr \in PriceLists :
        /\ market_info' = <<[ outcomes |-> outcomes, tokens_arr |-> tokens_arr,
                              info |-> build_market_info(outcomes, tokens_arr, prices_arr) ]>>
        /\ UNCHANGED <<eng, file, now, today, groups, starts, last, oracle_at, om, rl, loss_halt,
                       tested_price, fee_calc, fair_calc, daily, live_orders>>

DiscoveryNext == DiscoverMarket

SpecDiscovery == Init /\ [][DiscoveryNext]_vars

(***************************************************************************)
(* The order specification: order managers constructed in dry-run or live  *)
(* mode, limit orders placed and cancelled on them, with the clock         *)
(* advancing                                                               *)
(***************************************************************************)
MaxPlaced == 2     \* orders placed per order manager
MaxCanceled == 2   \* cancellations explored per order manager
MaxAttempts == 3   \* placements tried per order manager

\* the orderIDs the venue assigns
VenueOrderIds == { 1, 2 }

\* the answers of client.post_order: an exception or no orderID, or an orderID
PostAnswers == { <<>> } \cup { <<i>> : i \in VenueOrderIds }

\* the answers of client.cancel and client.cancel_all: an exception, a falsy
\* answer, a truthy answer
CancelAnswers == { <<>>, <<FALSE>>, <<TRUE>> }

\* the ids cancel_order is called with
CancelIds == VenueOrderIds \cup ClockTimes

NewOrderManager ==
    \E dry_run \in BOOLEAN :
        /\ om' = OrderManager(RiskManager(settings_daily_loss_limit_usd, settings_max_position_usd,
                                          settings_max_open_positions,
                                          settings_max_single_trade_usd, today), dry_run)
        /\ live_orders' = {}
        /\ last' = Last("new_order_manager", "")
        /\ UNCHANGED <<eng, file, now, today, groups, starts, oracle_at, rl, loss_halt,
                       tested_price, fee_calc, fair_calc, daily, market_info>>

PlaceOrder ==
    \E o \in RiskOrders, response \in PostAnswers :
        /\ om.orders_placed < MaxPlaced
        /\ om.risk_manager.trades_approved + om.risk_manager.trades_rejected < MaxAttempts
        /\ \E r \in { place_limit_order(om, today, now, "token", o[1], o[2], o[3], response) } :
               /\ om' = r.self
               /\ live_orders' = IF r.success
                                 THEN live_orders \cup {IF om.dry_run THEN now ELSE response[1]}
                                 ELSE live_orders
               /\ last' = [op |-> "place_limit_order",
                           outcome |-> IF r.success THEN "placed" ELSE "failed",
                           opp |-> <<>>, reason |-> r.error]
        /\ UNCHANGED <<eng, file, now, today, groups, starts, oracle_at, rl, loss_halt,
                       tested_price, fee_calc, fair_calc, daily, market_info>>

CancelOrder ==
    \E order_id \in CancelIds, response \in CancelAnswers :
        /\ om.orders_canceled < MaxCanceled
        /\ \E r \in { cancel_order(om, now, order_id, response) } :
               /\ om' = r.self
               /\ live_orders' = IF r.returned THEN live_orders \ {order_id} ELSE live_orders
               /\ last' = Last("cancel_order", IF r.returned THEN "cancelled" ELSE "failed")
        /\ UNCHANGED <<eng, file, now, today, groups, starts, oracle_at, rl, loss_halt,
                       tested_price, fee_calc, fair_calc, daily, market_info>>

CancelAllOrders ==
    \E response \in CancelAnswers :
        /\ om.orders_canceled < MaxCanceled
        /\ \E r \in { cancel_all_orders(om, response) } :
               /\ om' = r.self
               /\ live_orders' = IF r.raised THEN live_orders ELSE {}
               /\ last' = Last("cancel_all_orders", IF r.raised THEN "failed" ELSE "cancelled")
        /\ UNCHANGED <<eng, file, now, today, groups, starts, oracle_at, rl, loss_halt,
                       tested_price, fee_calc, fair_calc, daily, market_info>>

OrdersNext == NewOrderManager \/ PlaceOrder \/ CancelOrder \/ CancelAllOrders \/ Tick

SpecOrders == Init /\ [][OrdersNext]_vars

(***************************************************************************)
(* The fair value specification: calculators constructed with a            *)
(* volatility, and calls of calculate_fair_probability on them             *)
(***************************************************************************)
MaxFairCalls == 2   \* calls of calculate_fair_probability explored per calculator

\* the volatilities a calculator is constructed with, per-mille
FairVols == { 500, DEFAULT_ANNUAL_VOL, 2000 }

\* the spot prices and the strikes, in dollars
FairSpots == { 0, 89000, 89900, 90000, 90100, 91000 }
FairStrikes == { 0, 90000 }

\* the seconds remaining
FairSeconds == { -60, 0, 1, 60, 300, 900 }

NewFairValueCalculator ==
    \E vol \in FairVols :
        /\ fair_calc' = [self |-> FairValueCalculator(vol), args |-> <<>>, returned |-> 0]
        /\ UNCHANGED <<eng, file, now, today, groups, starts, last, oracle_at, om, rl, loss_halt,
                       tested_price, fee_calc, daily, market_info, live_orders>>

CalculateFairProbability ==
    \E S \in FairSpots, K \in FairStrikes, tau \in FairSeconds :
        /\ fair_calc.self.calc_count < MaxFairCalls
        /\ \E r \in { calculate_fair_probability(fair_calc.self, S, K, tau) } :
               fair_calc' = [self |-> r.self, args |-> <<S, K, tau>>, returned |-> r.probability]
        /\ UNCHANGED <<eng, file, now, today, groups, starts, last, oracle_at, om, rl, loss_halt,
                       tested_price, fee_calc, daily, market_info, live_orders>>

FairNext == NewFairValueCalculator \/ CalculateFairProbability

SpecFair == Init /\ [][FairNext]_vars

(***************************************************************************)
(* The rate limiter specification: callers of acquire() and try_acquire()  *)
(* on one limiter, with the clock advancing                                *)
(***************************************************************************)
RLNext ==
    \/ RLAcquire \/ RLGranted \/ RLWake \/ RLTryAcquire \/ RLTick

SpecRL == Init /\ [][RLNext]_vars

(***************************************************************************)
(* Properties of the engine (Spec)                                         *)
(***************************************************************************)
RECURSIVE SumAmounts(_)
SumAmounts(positions) ==
    IF positions = <<>> THEN 0 ELSE Head(positions).amount + SumAmounts(Tail(positions))

RECURSIVE SumPnl(_)
SumPnl(trades) ==
    IF trades = <<>> THEN 0 ELSE Head(trades).pnl + SumPnl(Tail(trades))

\* the composite price was last set more than 30 s ago, or never
OracleStale == oracle_at = <<>> \/ now - oracle_at[1] > 30

\* the open positions that expired more than 300 s before t
LatePositions(self, t) == SelectSeq(self.positions, LAMBDA p : t - p.end_time > 300)

\* C1: in every reachable state the engine has at most one open position
C1_SingleOpenPosition == Len(eng.positions) <= 1

\* a position is open, the evaluator has just left at its early exits, and
\* the markets hold a trade it would otherwise have taken
C1_Witness ==
    /\ Len(eng.positions) = 1
    /\ last.op = "eval_begin" /\ last.outcome = "early_exit"
    /\ \E vol \in Vols :
           scan_markets([eng EXCEPT !.positions = <<>>], sort_markets(eng.markets), now, vol) # <<>>

\* C2: balance plus the amounts of the open positions equals initial_balance
\* plus the pnl of the closed trades (a void trade has pnl 0)
C2_BalanceConservation ==
    eng.balance + SumAmounts(eng.positions) = eng.initial_balance + SumPnl(eng.trades)

\* a position has been opened and a settlement sweep has run over it after
\* its expiry
C2_Witness ==
    /\ Len(eng.positions) = 1
    /\ eng.balance < eng.initial_balance
    /\ last.op = "settle" /\ last.outcome = "NameError"

\* C3: a settlement sweep that runs while the composite price is more than
\* 30 s old leaves the open positions, the balance and the trade log as they were
C3_StaleSweepClosesNothing ==
    [][(last'.op = "settle" /\ OracleStale)
           => /\ eng'.positions = eng.positions
              /\ eng'.balance = eng.balance
              /\ eng'.trades = eng.trades]_vars

\* a sweep has just run over an expired position, at a valid price that is
\* more than 30 s old
C3_Witness ==
    /\ last.op = "settle" /\ last.outcome = "NameError"
    /\ OracleStale
    /\ \E i \in 1..Len(eng.positions) : eng.positions[i].end_time <= now

C6_EdgeGate ==
    (last.op = "execute" /\ last.outcome = "opened")
        => LET o == last.opp[1]
               quoted == IF o.side = "up" THEN o.market.outcome_prices[1]
                         ELSE o.market.outcome_prices[2]
           IN  /\ o.price = quoted
               /\ \E vol \in Vols :
                      LET p_up == fair_prob_up(eng.btc_price, o.market.strike_price,
                                               o.market.end_date - now, vol)
                          p_side == IF o.side = "up" THEN p_up ELSE 1000 - p_up
                      IN  p_side = o.p_side /\ p_side - quoted >= 100

\* the evaluator has just scanned the markets and traded nothing, though a
\* market passes every gate but the edge of 0.10
C6_Witness ==
    /\ last.op = "eval_scan" /\ last.outcome = "no_opportunity"
    /\ \E vol \in Vols, i \in 1..Len(eng.markets) :
           /\ evaluate_market_with(eng, eng.markets[i], now, vol, 0) # <<>>
           /\ \A v \in Vols : scan_markets(eng, sort_markets(eng.markets), now, v) = <<>>

\* C8: at most one evaluator is between the lock and its release, and it is
\* the one holding the trade lock
C8_MutualExclusion ==
    \A g \in Groups : groups[g] = "vol" => eng.trade_lock = g

\* an evaluator has just found the lock held by another one that is
\* awaiting the volatility, and has returned
C8_Witness ==
    /\ last.op = "eval_begin" /\ last.outcome = "locked"
    /\ \E g \in Groups : groups[g] = "vol"
    /\ \E g \in Groups : groups[g] = "sleep"

(***************************************************************************)
(* Properties of the risk manager (SpecRisk)                               *)
(***************************************************************************)
\* the inputs validate_trade is tried on: price, size, fee_rate, side
ValidateInputs == {5, 400} \X {0, 2000} \X {0, 15} \X {"BUY", "SELL"}

\* the manager is halted and the daily reset of d does not clear the halt
HaltSurvivesReset(rm, d) ==
    rm.is_halted /\ ~(d # rm.current_date /\ contains_daily_loss(rm.halt_reason))

\* C5 as stated: whenever the risk manager is halted, validate_trade returns
\* false for every input
C5_HaltedRejects ==
    \A i \in ValidateInputs :
        eng.risk_manager.is_halted
            => ~validate_trade(eng.risk_manager, today, i[1], i[2], i[3], i[4]).ok

\* C5: whenever the risk manager is halted and the halt is not a daily-loss
\* halt of an earlier date, validate_trade returns false with the reason
\* "Trading halted: " followed by the halt reason, for every input
C5_HaltedRejectsUnlessReset ==
    \A i \in ValidateInputs :
        HaltSurvivesReset(eng.risk_manager, today)
            => LET v == validate_trade(eng.risk_manager, today, i[1], i[2], i[3], i[4])
               IN  /\ ~v.ok
                   /\ v.reason = Text(<<"Trading", "halted:">> \o eng.risk_manager.halt_reason.words,
                                      eng.risk_manager.halt_reason.args)

\* a trade has just been rejected by a halted manager, which is still halted
C5_Witness ==
    /\ last.op = "execute" /\ last.outcome = "rejected"
    /\ Len(last.reason.words) >= 2
    /\ SubSeq(last.reason.words, 1, 2) = <<"Trading", "halted:">>
    /\ eng.risk_manager.is_halted

RejectionKeeps ==
    /\ eng'.balance = eng.balance
    /\ eng'.positions = eng.positions
    /\ eng'.trades = eng.trades
    /\ eng'.last_trade_time = eng.last_trade_time
    /\ om'.active_orders = om.active_orders
    /\ last'.reason # EmptyText

\* the risk manager after a rejection: the daily reset of d, one more
\* rejection counted, and the halt the daily-loss check may have set
RiskAfterRejection(rm, rm2, d) ==
    LET r0 == _reset_daily_if_needed(rm, d)
        r1 == [r0 EXCEPT !.trades_rejected = @ + 1]
    IN  \/ rm2 = r1
        \/ /\ rm2 = [r1 EXCEPT !.is_halted = TRUE, !.halt_reason = rm2.halt_reason]
           /\ r0.daily_pnl < -r0.max_daily_loss

\* C10 as stated: a rejection by the risk manager returns a reason and
\* changes nothing, the risk manager's own state included
C10_RejectionMutatesNothing ==
    [][(last'.outcome = "rejected")
           => /\ RejectionKeeps
              /\ eng'.risk_manager = eng.risk_manager
              /\ om'.risk_manager = om.risk_manager]_vars

\* C10: a rejection by the risk manager returns a reason and leaves the
\* engine's balance, positions, trades and last_trade_time and the order
\* manager's active orders as they were; the risk manager consulted counts
\* the rejection, after its daily reset, and may be halted by its daily-loss
\* check; the other risk manager is unchanged
C10_RejectionFrame ==
    [][(last'.outcome = "rejected")
           => /\ RejectionKeeps
              /\ IF last'.op = "execute"
                 THEN /\ RiskAfterRejection(eng.risk_manager, eng'.risk_manager, today)
                      /\ om'.risk_manager = om.risk_manager
                 ELSE /\ RiskAfterRejection(om.risk_manager, om'.risk_manager, today)
                      /\ eng'.risk_manager = eng.risk_manager]_vars

\* the engine has just had a trade rejected by its risk manager
C10_Witness ==
    /\ last.op = "execute" /\ last.outcome = "rejected"
    /\ eng.risk_manager.trades_rejected > 0

(***************************************************************************)
(* Properties of the rate limiter (SpecRL)                                 *)
(***************************************************************************)
\* tokens consumed by the acquire calls completed within the last second
RECURSIVE consumed(_)
consumed(log) == IF log = <<>> THEN 0 ELSE Head(log).n + consumed(Tail(log))

\* C7: over any one-second window, the tokens consumed by completed acquire
\* calls total at most capacity + rate
C7_WindowBound == consumed(rl.log) <= rl.capacity + rl.rate

(***************************************************************************)
(* Properties of the persistence (Spec)                                    *)
(***************************************************************************)
\* the fields of the engine that the snapshot holds
SnapshotFields(self) ==
    <<self.balance, self.initial_balance, self.pnl_today, self.total_trades,
      self.winning_trades, self.positions, self.trades>>

\* the data file f holds the in-memory state of the engine
Persisted(f, self) ==
    /\ f # <<>>
    /\ f[1].balance = self.balance
    /\ f[1].initial_balance = self.initial_balance
    /\ f[1].pnl_today = self.pnl_today
    /\ f[1].total_trades = self.total_trades
    /\ f[1].winning_trades = self.winning_trades
    /\ f[1].positions = [i \in 1..Len(self.positions) |-> position_to_dict(self.positions[i])]
    /\ f[1].trades = [i \in 1..Len(self.trades) |-> trade_to_dict(self.trades[i])]

DuePositions(self, t) ==
    SelectSeq(self.positions, LAMBDA p : p.end_time <= t /\ t - p.end_time <= 300)

\* position p wins at the composite price S
Wins(p, S) ==
    \/ p.side = "up" /\ S > p.strike_price
    \/ p.side = "down" /\ S < p.strike_price

\* the pnl of position p settled at the composite price S
SettledPnl(p, S) ==
    IF Wins(p, S) THEN (p.amount * 1000) \div p.entry_price - p.amount ELSE -p.amount

\* C13: a sweep that runs at a valid, fresh price S settles a position that
\* expired at most 300 s ago: it wins iff (up and S > K) or (down and S < K),
\* its pnl is amount/entry_price - amount on a win and -amount on a loss,
\* balance grows by amount + pnl, pnl_today and the risk manager's daily_pnl
\* grow by pnl, the closed trade is at the front of the trade log and the
\* position has left the open set
C13_RealSettlement ==
    [][(/\ last'.op = "settle"
        /\ ~OracleStale
        /\ eng.btc_price >= min_valid_price
        /\ DuePositions(eng, now) # <<>>)
           => LET p == DuePositions(eng, now)[1]
                  pnl == SettledPnl(p, eng.btc_price)
              IN  /\ eng'.balance = eng.balance + p.amount + pnl
                  /\ eng'.pnl_today = eng.pnl_today + pnl
                  /\ eng'.risk_manager.daily_pnl = eng.risk_manager.daily_pnl + pnl
                  /\ eng'.trades # <<>>
                  /\ Head(eng'.trades).pnl = pnl
                  /\ Head(eng'.trades).status = (IF Wins(p, eng.btc_price) THEN "won" ELSE "lost")
                  /\ \A i \in 1..Len(eng'.positions) : eng'.positions[i] # p]_vars

(***************************************************************************)
(* Properties of the risk limits (SpecRisk)                                *)
(***************************************************************************)
\* the inputs the limits are tried on: price, size, fee_rate, side
LimitInputs == {5, 400} \X {0, 2000, 20000} \X {0, 15} \X {"BUY", "SELL"}

\* the reasons the manager gives to the halts it sets for the daily loss
LossHaltReason(reason) ==
    \/ reason.words = <<"Daily", "loss", "limit", "reached:">>
    \/ reason.words = <<"Daily", "loss", "limit:">>

\* validate_trade(i) on manager rm at date d leaves the daily-loss check
\* correct up to the limit lim: approval needs daily_pnl within lim, and a
\* trade that is within the size limits, on a manager not yet halted and
\* beyond lim, is rejected with the manager halted for the amount lost
LossCheck(rm, d, i, beyond(_, _)) ==
    LET r0 == _reset_daily_if_needed(rm, d)
        v == validate_trade(rm, d, i[1], i[2], i[3], i[4])
        cost == total_cost(i[1], i[2], i[3])
    IN  /\ v.ok => ~beyond(r0.daily_pnl, r0.max_daily_loss)
        /\ (/\ beyond(r0.daily_pnl, r0.max_daily_loss)
            /\ ~r0.is_halted
            /\ ~cost_exceeds(cost, r0.max_trade)
            /\ ~cost_exceeds(cost, r0.max_position))
               => /\ ~v.ok
                  /\ v.self.is_halted
                  /\ v.self.halt_reason = v.reason
                  /\ v.reason = Text(<<"Daily", "loss", "limit", "reached:">>,
                                     <<fmt_2f(-r0.daily_pnl)>>)

\* record_trade_closed(pnl) on manager rm halts it, for the amount lost,
\* when it takes daily_pnl beyond the limit
CloseCheck(rm, pnl, beyond(_, _)) ==
    LET r == record_trade_closed(rm, pnl)
    IN  beyond(rm.daily_pnl + pnl, rm.max_daily_loss)
            => /\ r.is_halted
               /\ LossHaltReason(r.halt_reason)
               /\ r.halt_reason.args = <<fmt_2f(-(rm.daily_pnl + pnl))>>

\* the loss reaches the limit: daily_pnl <= -max_daily_loss
AtOrBeyondLimit(daily_pnl, max_daily_loss) == daily_pnl <= -max_daily_loss

\* the loss exceeds the limit: daily_pnl < -max_daily_loss
BeyondLimit(daily_pnl, max_daily_loss) == daily_pnl < -max_daily_loss

\* C14 as stated: validate_trade approves only when daily_pnl > -max_daily_loss,
\* otherwise it rejects and halts with the amount lost in the reason, and a
\* record_trade_closed that takes daily_pnl below -max_daily_loss halts
C14_LossLimitStrict ==
    /\ \A i \in LimitInputs : LossCheck(eng.risk_manager, today, i, AtOrBeyondLimit)
    /\ \A pnl \in RiskPnls : CloseCheck(eng.risk_manager, pnl, BeyondLimit)

\* C14: validate_trade approves only when daily_pnl >= -max_daily_loss; when
\* daily_pnl < -max_daily_loss (after the daily reset), on a manager not yet
\* halted and for a trade within the size limits, it rejects and halts with
\* the reason "Daily loss limit reached:" and the amount lost; a
\* record_trade_closed that takes daily_pnl below -max_daily_loss halts
C14_LossLimit ==
    /\ \A i \in LimitInputs : LossCheck(eng.risk_manager, today, i, BeyondLimit)
    /\ \A pnl \in RiskPnls : CloseCheck(eng.risk_manager, pnl, BeyondLimit)

\* a trade has just been rejected by the daily-loss check, which halted the
\* manager for the amount lost
C14_Witness ==
    /\ last.op = "execute" /\ last.outcome = "rejected"
    /\ last.reason.words = <<"Daily", "loss", "limit", "reached:">>
    /\ eng.risk_manager.is_halted
    /\ eng.risk_manager.halt_reason = last.reason
    /\ eng.risk_manager.daily_pnl < -eng.risk_manager.max_daily_loss

(***************************************************************************)
(* Properties of the position limit (SpecRisk)                             *)
(***************************************************************************)
\* validate_trade(i) on manager rm at date d, for a side among sides, is
\* rejected when the open positions are not below the maximum, and with the
\* reason of check 4 when no earlier check rejects it
PositionsCheck(rm, d, i, sides) ==
    LET r0 == _reset_daily_if_needed(rm, d)
        v == validate_trade(rm, d, i[1], i[2], i[3], i[4])
        cost == total_cost(i[1], i[2], i[3])
    IN  (i[4] \in sides /\ r0.open_positions >= r0.max_positions)
            => /\ ~v.ok
               /\ (/\ ~r0.is_halted
                   /\ ~cost_exceeds(cost, r0.max_trade)
                   /\ ~cost_exceeds(cost, r0.max_position)
                   /\ ~BeyondLimit(r0.daily_pnl, r0.max_daily_loss))
                      => v.reason = Text(<<"Max", "positions", "reached:">>,
                                         <<r0.open_positions, r0.max_positions>>)

\* C15 as stated: validate_trade returns false whenever the open position
\* count is not below the maximum, for every validated trade
C15_MaxPositionsAnySide ==
    \A i \in LimitInputs : PositionsCheck(eng.risk_manager, today, i, {"BUY", "SELL"})

\* C15: validate_trade returns false for every trade of side BUY whenever
\* the open position count is not below the maximum
C15_MaxPositions ==
    \A i \in LimitInputs : PositionsCheck(eng.risk_manager, today, i, {"BUY"})

\* a BUY has just been rejected because the positions are full
C15_Witness ==
    /\ last.op = "execute" /\ last.outcome = "rejected"
    /\ last.reason.words = <<"Max", "positions", "reached:">>
    /\ eng.risk_manager.open_positions >= eng.risk_manager.max_positions

(***************************************************************************)
(* Properties of the size and sanity checks (SpecRisk)                     *)
(***************************************************************************)
\* the inputs the checks are tried on, around their bounds: price, size,
\* fee_rate, side
SanityInputs ==
    ({9, 10, 990, 991} \X {0, 1, 10000000, 10000001} \X {0} \X {"BUY"})
        \cup ({10, 400} \X {12500, 10000000} \X {0, 15} \X {"BUY", "SELL"})

\* manager rm, and rm constructed with a smaller max_position_usd and with a
\* smaller max_single_trade_usd
SanityManagers(rm) ==
    { rm, [rm EXCEPT !.max_position = 2000], [rm EXCEPT !.max_trade = 2000] }

\* validate_trade(i) on manager rm at date d returns true only within the
\* two cost limits and the bounds of price and size
SanityCheck(rm, d, i) ==
    LET v == validate_trade(rm, d, i[1], i[2], i[3], i[4])
        cost == total_cost(i[1], i[2], i[3])
    IN  v.ok => /\ ~cost_exceeds(cost, rm.max_trade)
                /\ ~cost_exceeds(cost, rm.max_position)
                /\ 10 <= i[1] /\ i[1] <= 990
                /\ 0 < i[2] /\ i[2] <= 10000000

\* C16: validate_trade returns true only if price * size * (1 + fee_rate) is
\* at most max_single_trade and at most max_position, 0.01 <= price <= 0.99
\* and 0 < size <= 10,000
C16_ApprovedWithinLimits ==
    \A rm \in {eng.risk_manager} \cup SanityManagers(om.risk_manager) :
        \A i \in SanityInputs : SanityCheck(rm, today, i)

\* an order has just been approved and placed, and at the bounds of price,
\* size and cost the manager approves a trade and rejects the next one
C16_Witness ==
    /\ last.op = "place_limit_order" /\ last.outcome = "placed"
    /\ om.risk_manager.trades_approved > 0
    /\ validate_trade(om.risk_manager, today, 10, 10000000, 0, "BUY").ok
    /\ ~validate_trade(om.risk_manager, today, 10, 10000001, 0, "BUY").ok
    /\ validate_trade(om.risk_manager, today, 990, 1, 0, "BUY").ok
    /\ ~validate_trade(om.risk_manager, today, 991, 1, 0, "BUY").ok

(***************************************************************************)
(* Properties of the day rollover (SpecRisk)                               *)
(***************************************************************************)
\* the dates after the date the manager rm last saw
LaterDates(rm) == { d \in 0..(MaxDay + 1) : d > rm.current_date }

\* C17: on a day rollover the manager resets daily_pnl and daily_trades to 0
\* and clears the halt if and only if the halt was set by the daily-loss
\* limit; a halt set by halt_trading survives the rollover with its reason
C17_RolloverClearsLossHaltOnly ==
    \A d \in LaterDates(eng.risk_manager) :
        LET rm == eng.risk_manager
            r == _reset_daily_if_needed(rm, d)
        IN  /\ r.current_date = d /\ r.daily_pnl = 0 /\ r.daily_trades = 0
            /\ ~rm.is_halted => ~r.is_halted
            /\ rm.is_halted => (r.is_halted <=> ~LossHaltReason(rm.halt_reason))
            /\ r.is_halted => r.halt_reason = rm.halt_reason

(***************************************************************************)
(* Properties of the evaluator's view of the oracle price (Spec)           *)
(***************************************************************************)
\* the market passes the skips of lines 519-557, so that the fair value of
\* lines 565-576 is computed for it
ReachesFairValue(self, market, t) ==
    /\ ~(market.best_ask - market.best_bid > 50)
    /\ ~(\E i \in 1..Len(self.positions) : self.positions[i].market_slug = market.slug)
    /\ market.accepting_orders
    /\ market.strike_price # 0
    /\ market.end_date - t > MIN_TIME_MINUTES * 60
    /\ market.end_date - t <= MAX_TIME_MINUTES * 60

\* the scan of the markets that follows the volatility request, by group g
ScanStep(g) == groups[g] = "vol" /\ groups'[g] = "sleep"

\* C18: the price used by the fair-value computations of an evaluator cycle
\* is the price tested at the early exit of that cycle
C18_SinglePriceSnapshot ==
    [][\A g \in Groups :
          (/\ ScanStep(g)
           /\ \E i \in 1..Len(eng.markets) : ReachesFairValue(eng, eng.markets[i], now))
              => tested_price = <<eng.btc_price>>]_vars

(***************************************************************************)
(* Properties of the quotes of the discovered markets (Spec)               *)
(***************************************************************************)
\* both outcome prices are present and their sum is within [0.95, 1.05]
InBand(outcome_prices) ==
    /\ outcome_prices # <<>>
    /\ 950 <= outcome_prices[1] + outcome_prices[2]
    /\ outcome_prices[1] + outcome_prices[2] <= 1050

\* C19 as stated: every market of the engine's market snapshot, as returned
\* by discovery, has outcome prices summing within [0.95, 1.05]
C19_CandidatesInBand ==
    \A i \in 1..Len(eng.markets) : InBand(eng.markets[i].outcome_prices)

\* C19: every market of the engine's market snapshot has both outcome
\* prices, and the market of every opportunity the evaluator takes has
\* outcome prices summing within [0.95, 1.05]
C19_OutOfBandNeverTraded ==
    /\ \A i \in 1..Len(eng.markets) : eng.markets[i].outcome_prices # <<>>
    /\ (last.op = "execute" /\ last.opp # <<>>) => InBand(last.opp[1].market.outcome_prices)

\* the snapshot holds a market with quotes out of the band, and the
\* evaluator has just opened a position on another market of the snapshot
C19_Witness ==
    /\ last.op = "execute" /\ last.outcome = "opened"
    /\ \E i \in 1..Len(eng.markets) : ~InBand(eng.markets[i].outcome_prices)
    /\ \E i \in 1..Len(eng.markets) : eng.markets[i] = last.opp[1].market

(***************************************************************************)
(* Properties of the balance (Spec)                                        *)
(***************************************************************************)
\* C20: the balance of the paper engine is never negative
C20_BalanceNeverNegative == eng.balance >= 0

\* a position has just been opened: its amount has left the balance, which
\* is below the initial balance and not negative
C20_Witness ==
    /\ last.op = "execute" /\ last.outcome = "opened"
    /\ Len(eng.positions) = 1
    /\ eng.positions[1].amount > 0
    /\ eng.balance = eng.initial_balance - eng.positions[1].amount
    /\ eng.balance >= 0

(***************************************************************************)
(* Properties of the use of the composite price (Spec)                     *)
(***************************************************************************)
\* no oracle tick with a source that answered has set the composite of the
\* engine
NoSourceYet == oracle_at = <<>>

\* C21: before an oracle tick with at least one source that answered has
\* set the composite, the composite is 0, the evaluator leaves at its early
\* exit and the settlement sweep leaves at its price gate; no step of the
\* evaluator or of the sweep changes the open positions
C21_CompositeHasSource ==
    [][NoSourceYet =>
          /\ eng.btc_price = 0
          /\ early_exit(eng, now)
          /\ _settle_expired_positions(eng, file, now).outcome \in {"none", "invalid_price"}
          /\ last'.op \in {"execute", "settle", "eval_scan"} => eng'.positions = eng.positions]_vars

\* a position has just been opened on a composite set by an oracle tick
C21_Witness ==
    /\ last.op = "execute" /\ last.outcome = "opened"
    /\ ~NoSourceYet
    /\ eng.btc_price >= min_valid_price
    /\ Len(eng.positions) = 1

(***************************************************************************)
(* Properties of the taker fee (SpecFee)                                   *)
(***************************************************************************)
\* the fee rate returned for the price
fee_rate(price) == calculate_taker_fee(fee_calc.self, price).fee_rate

\* the last call was for a price p in [0, 1]
FeeCalculated == fee_calc.price # <<>> /\ fee_calc.price[1] <= FeePriceScale

\* |a - b| for non-negative floats
float_distance(a, b) ==
    IF float_cmp(a, b) >= 0 THEN float_sub(a, b) ELSE float_sub(b, a)

\* 2^k as a float
float_pow2(k) == [neg |-> FALSE, m |-> big_shl(<<1>>, DoubleBits - 1), e |-> k - (DoubleBits - 1)]

\* the fee is zero at 0 and 1 and nowhere above the float 315 / 10000, which
\* is its value at 0.5
FeeShape(p) ==
    /\ fee_calc.returned = fee_rate(p)
    /\ ~fee_calc.returned.neg
    /\ p \in {0, FeePriceScale} => fee_calc.returned = float_zero
    /\ float_cmp(fee_calc.returned, float_of_ratio(MAX_FEE_BPS, 10000)) <= 0
    /\ 2 * p = FeePriceScale => fee_calc.returned = float_of_ratio(MAX_FEE_BPS, 10000)

\* C22 as stated: fee_rate(p) = fee_rate(1 - p) for every price p in [0, 1],
\* the fee is zero at 0 and 1 and has its maximum, 3.15%, at p = 0.5
C22_FeeSymmetricExactly ==
    FeeCalculated =>
        LET p == fee_calc.price[1]
        IN  FeeShape(p) /\ fee_calc.returned = fee_rate(FeePriceScale - p)

\* C22: fee_rate(p) and fee_rate(1 - p) differ by at most 2^-56 for every
\* price p in [0, 1], the fee is zero at 0 and 1 and has its maximum, 3.15%,
\* at p = 0.5
C22_FeeSymmetricUpToRounding ==
    FeeCalculated =>
        LET p == fee_calc.price[1]
        IN  /\ FeeShape(p)
            /\ float_cmp(float_distance(fee_calc.returned, fee_rate(FeePriceScale - p)),
                         float_pow2(-56)) <= 0

\* the fee has been calculated at a price where it is positive and not the
\* float calculated at the mirrored price
C22_Witness ==
    /\ FeeCalculated
    /\ fee_calc.returned # float_zero
    /\ fee_calc.returned # fee_rate(FeePriceScale - fee_calc.price[1])

(***************************************************************************)
(* Properties of the fair value calculator (SpecFair)                      *)
(***************************************************************************)
\* C23: calculate_fair_probability with remaining_seconds <= 0 returns 1.0
\* when current_price > strike_price and 0.0 otherwise, not clipped
C23_ExpiredIsBinary ==
    (fair_calc.args # <<>> /\ fair_calc.args[3] <= 0)
        => fair_calc.returned = IF fair_calc.args[1] > fair_calc.args[2] THEN 1000 ELSE 0

\* an expired market with the price above the strike has been valued 1.0, and
\* the same prices with time remaining are valued within the clip
C23_Witness ==
    /\ fair_calc.args # <<>>
    /\ fair_calc.args[3] <= 0
    /\ fair_calc.args[1] > fair_calc.args[2]
    /\ fair_calc.returned = 1000
    /\ calculate_fair_probability(fair_calc.self, fair_calc.args[1], fair_calc.args[2], 60).probability = 990

\* the value the calculator of the last call gives to another spot price
fair_probability_at(S) ==
    calculate_fair_probability(fair_calc.self, S, fair_calc.args[2], fair_calc.args[3]).probability

FairCalledBeforeExpiry == fair_calc.args # <<>> /\ fair_calc.args[3] > 0

ExpiredPositions(self, t) == SelectSeq(self.positions, LAMBDA p : p.end_time <= t)

\* C25: a position is closed once: a sweep that runs at a valid, fresh price
\* over expired positions removes each of them, adds one closed-trade record
\* for each in the same step, and leaves total_trades equal to the number of
\* closed-trade records; a sweep that changes the balance removes a position
C25_ClosedExactlyOnce ==
    [][(last'.op = "settle")
           => /\ (/\ ~OracleStale
                  /\ eng.btc_price >= min_valid_price
                  /\ ExpiredPositions(eng, now) # <<>>)
                     => /\ ExpiredPositions(eng', now) = <<>>
                        /\ Len(eng'.trades) = Len(eng.trades) + Len(ExpiredPositions(eng, now))
              /\ eng'.balance # eng.balance => Len(eng'.positions) < Len(eng.positions)
              /\ Len(eng.trades) - Len(eng'.trades) = Len(eng'.positions) - Len(eng.positions)
              /\ eng'.total_trades = Len(eng'.trades)]_vars

\* C26: after every open, settlement and late void the risk manager's
\* open_positions is the number of the engine's open positions
C26_OpenCountMatches ==
    last.op \in {"execute", "settle"} => eng.risk_manager.open_positions = Len(eng.positions)

\* the settlement loop is running and the composite is valid and fresh
SweepCanSettle ==
    /\ eng.running
    /\ \E g \in Groups : GroupAlive(g)
    /\ eng.btc_price >= min_valid_price
    /\ ~OracleStale

\* C27: an open position whose end_time has passed is eventually removed,
\* provided the settlement loop keeps running and the oracle keeps
\* delivering a fresh composite of at least $1,000
C27_ExpiredEventuallyRemoved ==
    (ExpiredPositions(eng, now) # <<>> /\ SweepCanSettle)
        ~> (ExpiredPositions(eng, now) = <<>> \/ ~SweepCanSettle)

(***************************************************************************)
(* Properties of the token bucket (SpecRL)                                 *)
(***************************************************************************)
\* C28: under any interleaving of acquire and try_acquire the tokens of the
\* bucket stay within [0, capacity]
C28_TokensInRange == 0 <= rl.tokens /\ rl.tokens <= rl.capacity

(***************************************************************************)
(* Properties of start() and stop() (Spec)                                 *)
(***************************************************************************)
\* C29: under any interleaving of start() and stop() on one engine at most
\* one instance of each of the four loops is running, and every running
\* loop task is in the task list, so that stop() cancels it
C29_OneTrackedLoopSet ==
    /\ \A g, h \in Groups : (GroupAlive(g) /\ GroupAlive(h)) => g = h
    /\ \A g \in Groups : GroupAlive(g) => g \in eng.tasks

(***************************************************************************)
(* Properties of the evaluator's use of the composite (Spec)               *)
(***************************************************************************)
\* C30: the evaluator opens no position on a composite price whose last
\* successful update is more than 30 s old
C30_NoOpenOnStaleComposite ==
    (last.op = "execute" /\ last.outcome = "opened") => ~OracleStale

(***************************************************************************)
(* Properties of the daily accounting of the risk manager (SpecDaily)      *)
(***************************************************************************)
\* C31: once the risk manager has taken notice of the date, its daily_pnl is
\* exactly the pnl of the trades closed on that date: a loss recorded by
\* record_trade_closed on the new day is still counted after the daily reset
\* of the next validate_trade
C31_DailyPnlIsTodaysPnl ==
    daily.self.current_date = today => daily.self.daily_pnl = daily.closed_today

C34_OpenedOnFavouredSide ==
    (last.outcome = "opened" /\ last.opp # <<>>) => last.opp[1].p_side >= 600

\* C34: every position opened by the evaluator is on a market the model does
\* not put within (0.40, 0.60), and on a side whose model probability exceeds
\* its market price by more than min_edge; the side need not be the favoured
\* one
C34_OpenedOutsideGateWithEdge ==
    (last.outcome = "opened" /\ last.opp # <<>>) =>
        /\ last.opp[1].p_side <= 400 \/ last.opp[1].p_side >= 600
        /\ last.opp[1].p_side > last.opp[1].price + min_edge

\* the evaluator has just opened a position on the side the model gives
\* less than 0.40
C34_Witness ==
    /\ last.op = "execute" /\ last.outcome = "opened" /\ last.opp # <<>>
    /\ last.opp[1].p_side < 400
    /\ eng.positions # <<>>
    /\ eng.positions[Len(eng.positions)].side = last.opp[1].side

(***************************************************************************)
(* Properties of the oracle tick (Spec)                                    *)
(***************************************************************************)
\* C35: after an oracle tick in which at least one source answered, the
\* composite is the mean of the answers, its last-update timestamp is the
\* time of the tick, and the composite is the last element of the price
\* history, which holds at most 200 entries
C35_SuccessfulTick ==
    (last.op = "price_tick" /\ last.outcome = "sources") =>
        /\ \E quotes \in QuoteLists :
               quotes # <<>> /\ eng.btc_price = SumSeq(quotes) \div Len(quotes)
        /\ eng.last_price_update = now
        /\ eng.price_history # <<>>
        /\ eng.price_history[Len(eng.price_history)] = eng.btc_price
        /\ Len(eng.price_history) <= max_history

\* C36: an oracle tick in which no source answered leaves the composite, its
\* last-update timestamp and the price history as they were
C36_FailedTickFrame ==
    [][(last'.op = "price_tick" /\ last'.outcome = "no_sources")
           => /\ eng'.btc_price = eng.btc_price
              /\ eng'.last_price_update = eng.last_price_update
              /\ eng'.price_history = eng.price_history
              /\ oracle_at' = oracle_at]_vars

\* a tick without answers has just run on a composite set at an earlier time
C36_Witness ==
    /\ last.op = "price_tick" /\ last.outcome = "no_sources"
    /\ eng.btc_price > 0
    /\ oracle_at # <<>> /\ oracle_at[1] < now

(***************************************************************************)
(* Properties of the fill simulation (Spec)                                *)
(***************************************************************************)
\* C37: when the fill simulation misses, no position is opened, the balance,
\* the open positions, the trade log, last_trade_time, the risk manager and
\* the data file are as they were, and the evaluator has left the scan
C37_MissFrame ==
    [][(last'.op = "execute" /\ last'.outcome = "miss")
           => /\ eng'.balance = eng.balance
              /\ eng'.positions = eng.positions
              /\ eng'.trades = eng.trades
              /\ eng'.last_trade_time = eng.last_trade_time
              /\ eng'.risk_manager = eng.risk_manager
              /\ file' = file
              /\ \A g \in Groups : groups[g] = "vol" => groups'[g] = "sleep"
              /\ eng'.trade_lock = 0]_vars

\* the evaluator found an opportunity and the fill simulation has just
\* missed it: nothing is open and the balance is whole
C37_Witness ==
    /\ last.op = "execute" /\ last.outcome = "miss" /\ last.opp # <<>>
    /\ eng.positions = <<>>
    /\ eng.balance = eng.initial_balance
    /\ eng.last_trade_time = <<>>
    /\ \A g \in Groups : groups[g] # "vol"

C39_TokensDiffer ==
    (/\ market_info # <<>>
     /\ market_info[1].info # <<>>
     /\ Len(market_info[1].tokens_arr) >= 2) =>
        /\ outcome_indexes(market_info[1].outcomes).up_idx
               # outcome_indexes(market_info[1].outcomes).down_idx
        /\ market_info[1].info[1].tokens.up # market_info[1].info[1].tokens.down

(***************************************************************************)
(* Properties of the active orders (SpecOrders)                            *)
(***************************************************************************)
\* C40: an order id is in the active orders of the order manager exactly when
\* a limit order with that id was placed successfully and has not since been
\* cancelled successfully, and the active orders hold one order per id
C40_ActiveIsPlacedNotCancelled ==
    /\ { o.order_id : o \in om.active_orders } = live_orders
    /\ \A o1, o2 \in om.active_orders : o1.order_id = o2.order_id => o1 = o2

\* of two orders placed on a live order manager one has just been cancelled
\* and the other is still active
C40_Witness ==
    /\ ~om.dry_run
    /\ last.op = "cancel_order" /\ last.outcome = "cancelled"
    /\ om.orders_placed = 2
    /\ om.orders_canceled = 1
    /\ Cardinality(om.active_orders) = 1
    /\ Cardinality(live_orders) = 1

====
